---- MODULE Spec2Model ----
(***************************************************************************)
(* A model of the CARE WhatsApp bot: the per-identity conversation state   *)
(* machine (bot_engine/im_bot_service.py), the session store               *)
(* (bot_engine/session_manager.py, core/models.py), the token manager      *)
(* (utils/token_manager.py), the token-bucket rate limiter                 *)
(* (utils/rate_limiter.py) and the two outbound clients                    *)
(* (care_wrapper/client.py, whatsapp_bot/client.py).                       *)
(*                                                                         *)
(* Message texts are sequences of one-character strings, so that lower(),  *)
(* strip(), len(), `in` and split() are computed as Python computes them.  *)
(* Session time is in minutes; rate-limiter time is in ticks of            *)
(* 1/TicksPerSecond s and bucket contents in 1/TicksPerSecond of a token.  *)
(***************************************************************************)
EXTENDS Integers, Sequences, FiniteSets, TLC

VARIABLES
    db,        \* user_sessions table: identity -> row, or NoSession
    now,       \* wall clock of the session store, minutes
    reply,     \* what the last handled event returned to its caller
    calls,     \* outbound calls (backend, gateway) made by the last handled event
    ev,        \* the last handled event or operation
    buckets,   \* _rate_limiters: key -> [tokens, last_refill]
    rlnow,     \* wall clock of the rate limiter, ticks
    rlret,     \* result of the last rate limiter call
    denied,    \* the last consume call that was denied, until its bucket is taken from again
    grantlog,  \* tokens the directly called limiter has granted, by the time of the grant
    wpc,       \* concurrent session workers: worker -> program counter
    wop,       \* concurrent session workers: worker -> operation being run
    wlocal,    \* concurrent session workers: worker -> in-memory session object
    wbase,     \* concurrent session workers: the row stored when the two events arrived
    tpc,       \* concurrent limiter threads: thread -> position and local values
    tgrant,    \* concurrent limiter threads: calls started, tokens granted without waiting
    issued,    \* token manager: the last generate_token call and the token it returned
    payload,   \* token manager: what the last validate_token call returned
    held,      \* token manager: the token the last generate_token or refresh_token call returned
    table,     \* the user_sessions table as concurrent workers see it: a set of rows
    gpc        \* per worker: where it stands in SessionManager.get_or_create_session

vars == <<db, now, reply, calls, ev, buckets, rlnow, rlret, denied, grantlog, wpc, wop, wlocal, wbase, tpc, tgrant, issued, payload, held, table, gpc>>

engineVars == <<db, now, reply, calls, ev>>
limiterVars == <<buckets, rlnow, rlret, denied, grantlog>>
workerVars == <<wpc, wop, wlocal, wbase>>
threadVars == <<tpc, tgrant>>
tokenVars == <<issued, payload, held>>
tableVars == <<table, gpc>>

----------------------------------------------------------------------------
(* Bounds of the model *)

\* session clock, minutes
MaxTime == 40

\* time steps between events when collaborator calls fail
FaultTickSteps == {31}

\* resolution of the rate-limiter clock; a token is as many units of bucket
\* content
TicksPerSecond == 10

\* rate-limiter clock of the single caller, ticks
MaxLimiterTime == 5
LimiterSteps == {2}

\* the limiters called directly, and the `tokens` arguments of the calls
DirectKeys == {"care_api"}
TokenCounts == {1, 6}

\* by how many ticks a sleep overruns
LateBy == {0, 1}

HttpOutcomes == {"ok", "error"}
MessageIds == {"", "wamid.1"}

\* threads sharing one RateLimiter
Threads == {1, 2}
ThreadKey == "care_api"
ThreadTokenCounts == {1, 3}
MaxThreadCalls == 3
MaxThreadTime == 10
ThreadSteps == {5}

\* web workers handling two events of one identity
Workers == {1, 2}

\* a worker that is not inside get_or_create_session
IdleCall == [pc |-> "idle", whatsapp_id |-> "", pk |-> 0]
WorkerId == "u1"

----------------------------------------------------------------------------
(* Python str operations on sequences of characters *)

UpperChars == <<"A", "C", "E", "F", "G", "H", "I", "L", "N", "O", "P", "R", "S", "T", "U">>
LowerChars == <<"a", "c", "e", "f", "g", "h", "i", "l", "n", "o", "p", "r", "s", "t", "u">>

LowerTable ==
    [c \in {UpperChars[i] : i \in 1..Len(UpperChars)} |->
        LowerChars[CHOOSE i \in 1..Len(UpperChars) : UpperChars[i] = c]]

LowerChar(c) == IF c \in DOMAIN LowerTable THEN LowerTable[c] ELSE c

lower(s) == [i \in 1..Len(s) |-> LowerChar(s[i])]

IsSpace(c) == c = " "

strip(s) ==
    IF \A i \in 1..Len(s) : IsSpace(s[i]) THEN <<>>
    ELSE LET a == CHOOSE i \in 1..Len(s) : ~IsSpace(s[i]) /\ \A j \in 1..(i-1) : IsSpace(s[j])
             b == CHOOSE i \in 1..Len(s) : ~IsSpace(s[i]) /\ \A j \in (i+1)..Len(s) : IsSpace(s[j])
         IN SubSeq(s, a, b)

contains(s, sub) ==
    \E i \in 1..(Len(s) - Len(sub) + 1) : SubSeq(s, i, i + Len(sub) - 1) = sub

startswith(s, pre) == Len(s) >= Len(pre) /\ SubSeq(s, 1, Len(pre)) = pre

\* s.split(sep, 1) for a one-character sep that occurs in s
split_once(s, sep) ==
    LET i == CHOOSE k \in 1..Len(s) : s[k] = sep /\ \A j \in 1..(k-1) : s[j] # sep
    IN <<SubSeq(s, 1, i - 1), SubSeq(s, i + 1, Len(s))>>

----------------------------------------------------------------------------
(* utils/constants.py *)

TOKEN_EXPIRY_MINUTES == 1440
TOKEN_REFRESH_MINUTES == 1440
EXPIRY_HOURS == 24

STATE_NEW == "new"
USER_TYPE_SELECTION == "user_type_selection"
PATIENT_MENU == "patient_menu"
STAFF_MENU == "staff_menu"

\* Command.LOGOUT, Command.HELP, Command.RESTART
CMD_LOGOUT == <<"l", "o", "g", "o", "u", "t">>
CMD_HELP == <<"h", "e", "l", "p">>
CMD_RESTART == <<"r", "e", "s", "t", "a", "r", "t">>

----------------------------------------------------------------------------
(* utils/token_manager.py.  A token is what jwt.encode returned (kind "jwt", *)
(* signed with settings.SECRET_KEY), any other string (kind "opaque": not a  *)
(* JWT, or one signed with another key), or None (kind "none").              *)

NoToken == [kind |-> "none", raw |-> "", user_id |-> <<>>, user_type |-> "", exp |-> 0, iat |-> 0, jti |-> 0]

OpaqueToken(raw) == [kind |-> "opaque", raw |-> raw, user_id |-> <<>>, user_type |-> "", exp |-> 0, iat |-> 0, jti |-> 0]

\* str(int(time.time() * 1000)): a function of the clock reading alone, so
\* that calls which read the same clock value are given the same id
JtiAt(t) == t * 60 * 1000

generate_token(user_id, user_type, expiry_minutes) ==
    [kind |-> "jwt", raw |-> "", user_id |-> user_id, user_type |-> user_type,
     exp |-> now + expiry_minutes, iat |-> now, jti |-> JtiAt(now)]

\* jwt.decode succeeds: the signature is ours and exp is still ahead
jwt_decodes(token) == token.kind = "jwt" /\ token.exp > now

\* None, returned in place of a payload
NoPayload == [none |-> TRUE]

validate_token_mut_no_exp_check(token) ==
    IF token.kind = "jwt"
    THEN [user_id |-> token.user_id, user_type |-> token.user_type,
          exp |-> token.exp, iat |-> token.iat, jti |-> token.jti]
    ELSE NoPayload

\* validate_token: the payload jwt.decode returns, None when it raises
validate_token(token) ==
    IF jwt_decodes(token)
    THEN [user_id |-> token.user_id, user_type |-> token.user_type,
          exp |-> token.exp, iat |-> token.iat, jti |-> token.jti]
    ELSE NoPayload

is_token_expired(token) == ~jwt_decodes(token)

\* the falsy tokens of `if not auth_token` / `session.auth_token and ...`
token_falsy(token) == token.kind = "none" \/ (token.kind = "opaque" /\ token.raw = "")

----------------------------------------------------------------------------
(* core/models.py: UserSession.  created_at and the primary key are never   *)
(* read by the program and are left out; the bot_messages table is a        *)
(* write-only log and is left out as well.                                  *)

DEFAULT_TIMEOUT_MINUTES == 30

NoSession == [exists |-> FALSE]

EmptyData == [k \in {} |-> <<>>]

DictGet(d, k, default) == IF k \in DOMAIN d THEN d[k] ELSE default

DictSet(d, k, v) == [x \in (DOMAIN d) \cup {k} |-> IF x = k THEN v ELSE d[x]]

\* dict.update(other)
DictUpdate(d, other) ==
    [x \in (DOMAIN d) \cup (DOMAIN other) |-> IF x \in DOMAIN other THEN other[x] ELSE d[x]]

\* Model.save(): every column is written, last_activity is auto_now
save(obj) == [obj EXCEPT !.last_activity = now]

\* the row objects.get_or_create inserts
created_session ==
    [current_state |-> STATE_NEW, user_type |-> "unknown", is_authenticated |-> FALSE,
     auth_token |-> NoToken, session_data |-> EmptyData, last_activity |-> now]

is_session_expired(obj) == (now - obj.last_activity) * 60 > DEFAULT_TIMEOUT_MINUTES * 60

\* UserSession.clear_session, before its save()
clear_session_fields(obj) ==
    [obj EXCEPT !.current_state = STATE_NEW, !.session_data = EmptyData,
                !.is_authenticated = FALSE, !.auth_token = NoToken]

\* UserSession.update_session, before its save()
update_session_fields(obj, state, data) ==
    LET a == IF state # "" THEN [obj EXCEPT !.current_state = state] ELSE obj
        b == IF DOMAIN data # {} THEN [a EXCEPT !.session_data = DictUpdate(a.session_data, data)] ELSE a
    IN [b EXCEPT !.last_activity = now]

----------------------------------------------------------------------------
(* bot_engine/session_manager.py.  Every operation works on the row of one  *)
(* identity.  The fallible collaborator calls of one event (a query or a     *)
(* save() of the session store, a BotMessage insert, a jwt.encode) are       *)
(* numbered 1, 2, ... in the order the code makes them; f is the set of the  *)
(* numbers of the calls that raise.  An operation returns the row as stored  *)
(* afterwards, the number of calls made so far, whether an exception leaves  *)
(* it, and the session object it hands back.                                 *)

NoFailure == {}

Fails(f, k) == k \in f

Ok(obj, n) == [row |-> obj, n |-> n, exc |-> FALSE, obj |-> obj]

Raise(row, n) == [row |-> row, n |-> n, exc |-> TRUE, obj |-> NoSession]

get_or_create_session_mut_no_token_check(row, n, f) ==
    IF Fails(f, n + 1) THEN Raise(row, n + 1)
    ELSE IF row = NoSession THEN Ok(created_session, n + 1)
    ELSE IF is_session_expired(row)
         THEN IF Fails(f, n + 2) THEN Raise(row, n + 2)
              ELSE Ok(save(clear_session_fields(row)), n + 2)
         ELSE Ok(row, n + 1)

get_or_create_session(row, n, f) ==
    IF Fails(f, n + 1) THEN Raise(row, n + 1)
    ELSE IF row = NoSession THEN Ok(created_session, n + 1)
    ELSE IF is_session_expired(row)
            \/ (~token_falsy(row.auth_token) /\ is_token_expired(row.auth_token))
         THEN IF Fails(f, n + 2) THEN Raise(row, n + 2)
              ELSE Ok(save(clear_session_fields(row)), n + 2)
         ELSE Ok(row, n + 1)

\* `data or {}`: no data is the empty dict
update_session_state(row, n, f, new_state, data) ==
    LET Got(g) ==
            IF g.exc THEN g
            ELSE IF Fails(f, g.n + 1) THEN Raise(g.row, g.n + 1)
            ELSE Ok(save(update_session_fields(g.obj, new_state, data)), g.n + 1)
    IN Got(get_or_create_session(row, n, f))

authenticate_user_mut_replace_data(row, n, f, user_type, user_id, auth_token) ==
    LET Got(gen, n1, g) ==
            IF gen /\ Fails(f, n1) THEN Raise(row, n1)
            ELSE IF g.exc THEN g
            ELSE IF Fails(f, g.n + 1) THEN Raise(g.row, g.n + 1)
            ELSE Ok(save([g.obj EXCEPT !.user_type = user_type,
                                       !.is_authenticated = TRUE,
                                       !.auth_token = IF gen THEN generate_token(user_id, user_type, TOKEN_EXPIRY_MINUTES)
                                                      ELSE auth_token,
                                       !.session_data = DictSet(EmptyData, "user_id", user_id)]),
                    g.n + 1)
        Token(gen, n1) == Got(gen, n1, get_or_create_session(row, n1, f))
        Given(gen) == Token(gen, IF gen THEN n + 1 ELSE n)
    IN Given(token_falsy(auth_token))

authenticate_user(row, n, f, user_type, user_id, auth_token) ==
    LET Got(gen, n1, g) ==
            IF gen /\ Fails(f, n1) THEN Raise(row, n1)
            ELSE IF g.exc THEN g
            ELSE IF Fails(f, g.n + 1) THEN Raise(g.row, g.n + 1)
            ELSE Ok(save([g.obj EXCEPT !.user_type = user_type,
                                       !.is_authenticated = TRUE,
                                       !.auth_token = IF gen THEN generate_token(user_id, user_type, TOKEN_EXPIRY_MINUTES)
                                                      ELSE auth_token,
                                       !.session_data = DictSet(@, "user_id", user_id)]),
                    g.n + 1)
        Token(gen, n1) == Got(gen, n1, get_or_create_session(row, n1, f))
        Given(gen) == Token(gen, IF gen THEN n + 1 ELSE n)
    IN Given(token_falsy(auth_token))

\* the exception of either step is logged and swallowed
log_message(row, n, f) ==
    LET Got(g) == IF g.exc THEN [g EXCEPT !.exc = FALSE] ELSE [g EXCEPT !.n = g.n + 1]
    IN Got(get_or_create_session(row, n, f))

refresh_token(token, extend_minutes) ==
    IF validate_token(token) = NoPayload THEN NoToken
    ELSE [token EXCEPT !.exp = now + extend_minutes, !.iat = now, !.jti = JtiAt(now)]

\* returns None on any exception
get_session_data(row, n, f) ==
    LET Got(g) ==
            IF g.exc THEN [g EXCEPT !.exc = FALSE]
            ELSE IF ~token_falsy(g.obj.auth_token) /\ ~is_token_expired(g.obj.auth_token)
                 THEN IF Fails(f, g.n + 1) THEN [Raise(g.row, g.n + 1) EXCEPT !.exc = FALSE]
                      ELSE Ok(save([g.obj EXCEPT !.auth_token = refresh_token(@, TOKEN_REFRESH_MINUTES)]),
                              g.n + 1)
                 ELSE g
    IN Got(get_or_create_session(row, n, f))

\* returns False on any exception
clear_session(row, n, f) ==
    LET Got(g) ==
            IF g.exc THEN [g EXCEPT !.exc = FALSE]
            ELSE IF Fails(f, g.n + 1) THEN [Raise(g.row, g.n + 1) EXCEPT !.exc = FALSE]
            ELSE Ok(save(clear_session_fields(g.obj)), g.n + 1)
    IN Got(get_or_create_session(row, n, f))

logout_user_mut_keep_token(row, n, f) ==
    LET Got(g) ==
            IF g.exc THEN [g EXCEPT !.exc = FALSE]
            ELSE IF Fails(f, g.n + 1) THEN [Raise(g.row, g.n + 1) EXCEPT !.exc = FALSE]
            ELSE Ok(save([g.obj EXCEPT !.is_authenticated = FALSE,
                                       !.current_state = STATE_NEW]), g.n + 1)
    IN Got(get_or_create_session(row, n, f))

\* returns False on any exception
logout_user(row, n, f) ==
    LET Got(g) ==
            IF g.exc THEN [g EXCEPT !.exc = FALSE]
            ELSE IF Fails(f, g.n + 1) THEN [Raise(g.row, g.n + 1) EXCEPT !.exc = FALSE]
            ELSE Ok(save([g.obj EXCEPT !.is_authenticated = FALSE,
                                       !.auth_token = NoToken,
                                       !.current_state = STATE_NEW]), g.n + 1)
    IN Got(get_or_create_session(row, n, f))

----------------------------------------------------------------------------
(* care_wrapper/client.py.  None of the client's methods is wrapped by      *)
(* rate_limited and none calls the rate limiter: a method call is logged as  *)
(* one backend call with nothing before it.  be is what the CARE server does *)
(* with the requests of one event: `first` and `second` are the outcomes of  *)
(* the first and second HTTP request ("ok", or "error" for any               *)
(* RequestException), `access` the login response's access token ("" when    *)
(* absent), `results` whether a listing has entries.                         *)

BackendCall(name) == [kind |-> "backend", name |-> name]

LimiterWait(key) == [kind |-> "wait", name |-> key]

NAME_ASHA == <<"A", "s", "h", "a">>
ROLE_NURSE == <<"n", "u", "r", "s", "e">>

BackendOutcomes ==
    { [first |-> "ok", access |-> "T1", second |-> "ok", results |-> "some"],
      [first |-> "ok", access |-> "T1", second |-> "error", results |-> "empty"],
      [first |-> "ok", access |-> "", second |-> "ok", results |-> "empty"],
      [first |-> "error", access |-> "", second |-> "error", results |-> "some"] }

\* authenticate_patient / authenticate_staff: the dict returned
care_authenticate(be) ==
    IF be.first = "error" THEN [authenticated |-> FALSE, token |-> NoToken, name |-> <<>>, role |-> <<>>]
    ELSE IF be.access = "" THEN [authenticated |-> FALSE, token |-> NoToken, name |-> <<>>, role |-> <<>>]
    ELSE IF be.second = "error" THEN [authenticated |-> FALSE, token |-> NoToken, name |-> <<>>, role |-> <<>>]
    ELSE [authenticated |-> TRUE, token |-> OpaqueToken(be.access), name |-> NAME_ASHA, role |-> ROLE_NURSE]

\* get_patient_medications / _procedures / _appointments, search_patient,
\* get_recent_patients: the list returned, [] on any exception
care_list(be) == IF be.first = "error" THEN "empty" ELSE be.results

----------------------------------------------------------------------------
(* bot_engine/im_bot_service.py: replies *)

R(kind) == [kind |-> kind, name |-> <<>>, role |-> <<>>]

RNamed(kind, name, role) == [kind |-> kind, name |-> name, role |-> role]

ERROR_REPLY == R("error_generic")
LOGOUT_REPLY == R("logout_confirm")
WELCOME_REPLY == R("welcome_role_prompt")
PATIENT_ID_PROMPT == R("patient_id_prompt")
STAFF_CRED_PROMPT == R("staff_credentials_prompt")
SESSION_EXPIRED_REPLY == R("session_expired_please_logout")
REQUEST_ERROR_REPLY == R("request_error_try_later")
AUTH_UNAVAILABLE_REPLY == R("could_not_authenticate_try_later")

\* what a handler returns: the stored row, the calls counted so far, whether
\* an exception leaves it, its reply and the outbound calls it made
H(row, n, rp, cs) == [row |-> row, n |-> n, exc |-> FALSE, reply |-> rp, calls |-> cs]

HRaise(row, n, cs) == [row |-> row, n |-> n, exc |-> TRUE, reply |-> R("exception"), calls |-> cs]

\* `except Exception as e: ... return <message>`
CatchAll_mut_reraise(h, message) == h

CatchAll(h, message) == IF h.exc THEN [h EXCEPT !.exc = FALSE, !.reply = message] ELSE h


----------------------------------------------------------------------------
(* bot_engine/im_bot_service.py: handlers *)

_handle_logout(row, n, f) ==
    LET Done(l) == H(l.row, l.n, LOGOUT_REPLY, <<>>)
    IN Done(logout_user(row, n, f))

\* the state the welcome step stores
WELCOME_STATE == "choosing_user_type"

_handle_new_user(row, n, f) ==
    LET Done(u) == IF u.exc THEN HRaise(u.row, u.n, <<>>) ELSE H(u.row, u.n, WELCOME_REPLY, <<>>)
    IN Done(update_session_state(row, n, f, WELCOME_STATE, EmptyData))

_handle_user_type_selection(row, n, f, text) ==
    LET Done(u, prompt) == IF u.exc THEN HRaise(u.row, u.n, <<>>) ELSE H(u.row, u.n, prompt, <<>>)
        Chosen(text_lower) ==
            IF contains(text_lower, <<"p", "a", "t", "i", "e", "n", "t">>)
            THEN Done(update_session_state(row, n, f, "patient_auth", EmptyData), PATIENT_ID_PROMPT)
            ELSE IF contains(text_lower, <<"s", "t", "a", "f", "f">>)
            THEN Done(update_session_state(row, n, f, "staff_auth", EmptyData), STAFF_CRED_PROMPT)
            ELSE IF contains(text_lower, <<"h", "e", "l", "p">>) THEN H(row, n, R("general_help"), <<>>)
            ELSE H(row, n, R("reprompt_user_type"), <<>>)
    IN Chosen(strip(lower(text)))

\* the length check made on the text as received
_handle_patient_authentication_mut_no_strip(row, n, f, text, be) ==
    LET cs == <<BackendCall("authenticate_patient")>>
        Updated(auth_result, u) ==
            IF u.exc THEN H(u.row, u.n, AUTH_UNAVAILABLE_REPLY, cs)
            ELSE H(u.row, u.n, RNamed("patient_authentication_successful", auth_result.name, <<>>), cs)
        Authenticated(auth_result, a) ==
            IF a.exc THEN H(a.row, a.n, AUTH_UNAVAILABLE_REPLY, cs)
            ELSE Updated(auth_result, update_session_state(a.row, a.n, f, PATIENT_MENU, EmptyData))
        Answered(patient_id, auth_result) ==
            IF ~auth_result.authenticated THEN H(row, n, R("patient_authentication_failed"), cs)
            ELSE Authenticated(auth_result,
                               authenticate_user(row, n, f, "patient", patient_id, auth_result.token))
        Given(patient_id) ==
            IF Len(text) < 5 THEN H(row, n, R("invalid_patient_id"), <<>>)
            ELSE Answered(patient_id, care_authenticate(be))
    IN Given(strip(text))

\* every exception of the handler is answered with AUTH_UNAVAILABLE_REPLY
_handle_patient_authentication(row, n, f, text, be) ==
    LET cs == <<BackendCall("authenticate_patient")>>
        Updated(auth_result, u) ==
            IF u.exc THEN H(u.row, u.n, AUTH_UNAVAILABLE_REPLY, cs)
            ELSE H(u.row, u.n, RNamed("patient_authentication_successful", auth_result.name, <<>>), cs)
        Authenticated(auth_result, a) ==
            IF a.exc THEN H(a.row, a.n, AUTH_UNAVAILABLE_REPLY, cs)
            ELSE Updated(auth_result, update_session_state(a.row, a.n, f, PATIENT_MENU, EmptyData))
        Answered(patient_id, auth_result) ==
            IF ~auth_result.authenticated THEN H(row, n, R("patient_authentication_failed"), cs)
            ELSE Authenticated(auth_result,
                               authenticate_user(row, n, f, "patient", patient_id, auth_result.token))
        Given(patient_id) ==
            IF Len(patient_id) < 5 THEN H(row, n, R("invalid_patient_id"), <<>>)
            ELSE Answered(patient_id, care_authenticate(be))
    IN Given(strip(text))

\* every exception of the handler is answered with AUTH_UNAVAILABLE_REPLY
_handle_staff_authentication(row, n, f, text, be) ==
    LET cs == <<BackendCall("authenticate_staff")>>
        Read(auth_result, g) ==
            IF g.exc THEN H(g.row, g.n, AUTH_UNAVAILABLE_REPLY, cs)
            ELSE IF Fails(f, g.n + 1) THEN H(g.row, g.n + 1, AUTH_UNAVAILABLE_REPLY, cs)
            ELSE H(save([g.obj EXCEPT !.session_data =
                             DictSet(DictSet(@, "staff_role", auth_result.role),
                                     "staff_name", auth_result.name)]),
                   g.n + 1,
                   RNamed("staff_authentication_successful", auth_result.name, auth_result.role), cs)
        Updated(auth_result, u) ==
            IF u.exc THEN H(u.row, u.n, AUTH_UNAVAILABLE_REPLY, cs)
            ELSE Read(auth_result, get_or_create_session(u.row, u.n, f))
        Authenticated(auth_result, a) ==
            IF a.exc THEN H(a.row, a.n, AUTH_UNAVAILABLE_REPLY, cs)
            ELSE Updated(auth_result, update_session_state(a.row, a.n, f, STAFF_MENU, EmptyData))
        Answered(staff_id, auth_result) ==
            IF ~auth_result.authenticated THEN H(row, n, R("staff_authentication_failed"), cs)
            ELSE Authenticated(auth_result,
                               authenticate_user(row, n, f, "staff", staff_id, auth_result.token))
        Split(parts) ==
            IF parts[1] = <<>> \/ parts[2] = <<>> \/ Len(parts[2]) < 6
            THEN H(row, n, R("invalid_credentials"), <<>>)
            ELSE Answered(parts[1], care_authenticate(be))
    IN IF ~contains(text, <<":">>) \/ Len(strip(text)) < 8
       THEN H(row, n, R("invalid_staff_credentials_format"), <<>>)
       ELSE Split(split_once(strip(text), ":"))

_handle_patient_commands_mut_logout_unknown(row, n, f, text_content, be) ==
    LET Listing(g, name, none, some) ==
            H(g.row, g.n, IF care_list(be) = "empty" THEN R(none) ELSE R(some), <<BackendCall(name)>>)
        Got(text, g) ==
            IF g.exc THEN HRaise(g.row, g.n, <<>>)
            ELSE IF DictGet(g.obj.session_data, "user_id", <<>>) = <<>> \/ token_falsy(g.obj.auth_token)
            THEN H(g.row, g.n, SESSION_EXPIRED_REPLY, <<>>)
            ELSE IF text = <<"r", "e", "c", "o", "r", "d", "s">>
            THEN H(g.row, g.n, REQUEST_ERROR_REPLY, <<BackendCall("get_patient_records")>>)
            ELSE IF text = <<"m", "e", "d", "i", "c", "i", "n", "e", "s">>
            THEN Listing(g, "get_patient_medications", "no_medications", "medications_list")
            ELSE IF text = <<"p", "r", "o", "c", "e", "d", "u", "r", "e", "s">>
            THEN Listing(g, "get_patient_procedures", "no_procedures", "procedures_list")
            ELSE IF text = <<"a", "p", "p", "o", "i", "n", "t", "m", "e", "n", "t", "s">>
            THEN Listing(g, "get_patient_appointments", "no_appointments", "appointments_list")
            ELSE IF text = <<"h", "e", "l", "p">> THEN H(g.row, g.n, R("patient_commands_help"), <<>>)
            ELSE IF text = <<"l", "o", "g", "o", "u", "t">> THEN _handle_logout(g.row, g.n, f)
            ELSE _handle_logout(g.row, g.n, f)
    IN Got(strip(lower(text_content)), get_or_create_session(row, n, f))

\* get_patient_records returns a dict with two keys: `not records` is false
\* and the loop's first record is a key, a str without .get: AttributeError,
\* caught by the handler's except Exception
_handle_patient_commands(row, n, f, text_content, be) ==
    LET Listing(g, name, none, some) ==
            H(g.row, g.n, IF care_list(be) = "empty" THEN R(none) ELSE R(some), <<BackendCall(name)>>)
        Got(text, g) ==
            IF g.exc THEN HRaise(g.row, g.n, <<>>)
            ELSE IF DictGet(g.obj.session_data, "user_id", <<>>) = <<>> \/ token_falsy(g.obj.auth_token)
            THEN H(g.row, g.n, SESSION_EXPIRED_REPLY, <<>>)
            ELSE IF text = <<"r", "e", "c", "o", "r", "d", "s">>
            THEN H(g.row, g.n, REQUEST_ERROR_REPLY, <<BackendCall("get_patient_records")>>)
            ELSE IF text = <<"m", "e", "d", "i", "c", "i", "n", "e", "s">>
            THEN Listing(g, "get_patient_medications", "no_medications", "medications_list")
            ELSE IF text = <<"p", "r", "o", "c", "e", "d", "u", "r", "e", "s">>
            THEN Listing(g, "get_patient_procedures", "no_procedures", "procedures_list")
            ELSE IF text = <<"a", "p", "p", "o", "i", "n", "t", "m", "e", "n", "t", "s">>
            THEN Listing(g, "get_patient_appointments", "no_appointments", "appointments_list")
            ELSE IF text = <<"h", "e", "l", "p">> THEN H(g.row, g.n, R("patient_commands_help"), <<>>)
            ELSE IF text = <<"l", "o", "g", "o", "u", "t">> THEN _handle_logout(g.row, g.n, f)
            ELSE H(g.row, g.n, R("command_not_recognized"), <<>>)
    IN Got(strip(lower(text_content)), get_or_create_session(row, n, f))

\* len(s.split()): the number of maximal runs of non-space characters
word_count(s) ==
    Cardinality({i \in 1..Len(s) : ~IsSpace(s[i]) /\ (i = 1 \/ IsSpace(s[i - 1]))})

\* search_patient returns a list: a non-empty one has no .get (AttributeError,
\* caught by except Exception).  send_patient_notification builds its success
\* dict with datetime and uuid, which the module does not import: NameError,
\* caught inside it, so it returns success False whatever the server did.
_handle_staff_commands(row, n, f, text_content, be) ==
    LET Got(text, lowered, g) ==
            IF g.exc THEN HRaise(g.row, g.n, <<>>)
            ELSE IF DictGet(g.obj.session_data, "user_id", <<>>) = <<>> \/ token_falsy(g.obj.auth_token)
            THEN H(g.row, g.n, SESSION_EXPIRED_REPLY, <<>>)
            ELSE IF startswith(lowered, <<"s", "e", "a", "r", "c", "h", " ">>)
            THEN H(g.row, g.n,
                   IF care_list(be) = "empty" THEN R("no_patient_found") ELSE REQUEST_ERROR_REPLY,
                   <<BackendCall("search_patient")>>)
            ELSE IF startswith(lowered, <<"n", "o", "t", "i", "f", "y", " ">>)
            THEN IF word_count(text) < 2 THEN H(g.row, g.n, R("invalid_notify_format"), <<>>)
                 ELSE H(g.row, g.n, R("notification_failed"), <<BackendCall("send_patient_notification")>>)
            ELSE IF lowered = <<"p", "a", "t", "i", "e", "n", "t", "s">>
            THEN H(g.row, g.n,
                   IF care_list(be) = "empty" THEN R("no_recent_patients") ELSE R("recent_patients_list"),
                   <<BackendCall("get_recent_patients")>>)
            ELSE IF lowered = <<"h", "e", "l", "p">> THEN H(g.row, g.n, R("staff_commands_help"), <<>>)
            ELSE IF lowered = <<"l", "o", "g", "o", "u", "t">> THEN _handle_logout(g.row, g.n, f)
            ELSE H(g.row, g.n, R("command_not_recognized"), <<>>)
        Stripped(text) == Got(text, lower(text), get_or_create_session(row, n, f))
    IN Stripped(strip(text_content))

_handle_authenticated_user(row, n, f, text, be) ==
    LET Got(g) ==
            IF g.exc THEN HRaise(g.row, g.n, <<>>)
            ELSE IF g.obj.user_type = "patient" THEN _handle_patient_commands(g.row, g.n, f, text, be)
            ELSE IF g.obj.user_type = "staff" THEN _handle_staff_commands(g.row, g.n, f, text, be)
            ELSE H(g.row, g.n, R("session_not_recognized"), <<>>)
    IN Got(get_or_create_session(row, n, f))

_get_help_message_mut_welcome(session, row, n, f, be) ==
    IF ~session.is_authenticated THEN _handle_new_user(row, n, f)
    ELSE IF session.user_type = "patient" THEN _handle_patient_commands(row, n, f, <<"h", "e", "l", "p">>, be)
    ELSE IF session.user_type = "staff" THEN _handle_staff_commands(row, n, f, <<"h", "e", "l", "p">>, be)
    ELSE H(row, n, R("help_get_started"), <<>>)

\* session is the object the caller read earlier in the event
_get_help_message(session, row, n, f, be) ==
    IF ~session.is_authenticated THEN _handle_user_type_selection(row, n, f, <<"h", "e", "l", "p">>)
    ELSE IF session.user_type = "patient" THEN _handle_patient_commands(row, n, f, <<"h", "e", "l", "p">>, be)
    ELSE IF session.user_type = "staff" THEN _handle_staff_commands(row, n, f, <<"h", "e", "l", "p">>, be)
    ELSE H(row, n, R("help_get_started"), <<>>)

_process_text_message(row, n, f, text_content, be) ==
    LET Cleared(c) == _handle_new_user(c.row, c.n, f)
        Got(lowered, g) ==
            IF g.exc THEN HRaise(g.row, g.n, <<>>)
            ELSE IF lowered = CMD_LOGOUT THEN _handle_logout(g.row, g.n, f)
            ELSE IF lowered = CMD_HELP THEN _get_help_message(g.obj, g.row, g.n, f, be)
            ELSE IF lowered = CMD_RESTART THEN Cleared(clear_session(g.row, g.n, f))
            ELSE IF g.obj.current_state = STATE_NEW THEN _handle_new_user(g.row, g.n, f)
            ELSE IF g.obj.current_state = USER_TYPE_SELECTION
            THEN _handle_user_type_selection(g.row, g.n, f, text_content)
            ELSE IF g.obj.current_state = "patient_auth"
            THEN _handle_patient_authentication(g.row, g.n, f, text_content, be)
            ELSE IF g.obj.current_state = "staff_auth"
            THEN _handle_staff_authentication(g.row, g.n, f, text_content, be)
            ELSE _handle_authenticated_user(g.row, g.n, f, text_content, be)
    IN CatchAll(Got(lower(text_content), get_or_create_session(row, n, f)), ERROR_REPLY)

_handle_button_interaction(row, n, f, button_id) ==
    IF button_id = "patient_access" THEN _handle_user_type_selection(row, n, f, <<"p", "a", "t", "i", "e", "n", "t">>)
    ELSE IF button_id = "staff_access" THEN _handle_user_type_selection(row, n, f, <<"s", "t", "a", "f", "f">>)
    ELSE IF button_id = "help_info" THEN _handle_user_type_selection(row, n, f, <<"h", "e", "l", "p">>)
    ELSE H(row, n, R("button_interaction_received"), <<>>)

_handle_list_interaction_mut_no_token_check(row, n, f, list_id, be) ==
    LET Listing(g, name, none, some) ==
            H(g.row, g.n, IF care_list(be) = "empty" THEN R(none) ELSE R(some), <<BackendCall(name)>>)
        Got(g) ==
            IF g.exc THEN HRaise(g.row, g.n, <<>>)
            ELSE IF DictGet(g.obj.session_data, "user_id", <<>>) = <<>>
            THEN H(g.row, g.n, SESSION_EXPIRED_REPLY, <<>>)
            ELSE IF list_id = "patient_records"
            THEN H(g.row, g.n, REQUEST_ERROR_REPLY, <<BackendCall("get_patient_records")>>)
            ELSE IF list_id = "patient_medicines"
            THEN Listing(g, "get_patient_medications", "no_medications", "medications_list")
            ELSE IF list_id = "patient_procedures"
            THEN Listing(g, "get_patient_procedures", "no_procedures", "procedures_list")
            ELSE IF list_id = "patient_appointments"
            THEN Listing(g, "get_patient_appointments", "no_appointments", "appointments_list")
            ELSE IF list_id = "help"
            THEN CatchAll(_get_help_message(g.obj, g.row, g.n, f, be), REQUEST_ERROR_REPLY)
            ELSE H(g.row, g.n, R("unrecognized_selection"), <<>>)
    IN Got(get_or_create_session(row, n, f))

\* the listings are formatted as in _handle_patient_commands; the session
\* read is outside the try, _get_help_message inside it
_handle_list_interaction(row, n, f, list_id, be) ==
    LET Listing(g, name, none, some) ==
            H(g.row, g.n, IF care_list(be) = "empty" THEN R(none) ELSE R(some), <<BackendCall(name)>>)
        Got(g) ==
            IF g.exc THEN HRaise(g.row, g.n, <<>>)
            ELSE IF DictGet(g.obj.session_data, "user_id", <<>>) = <<>> \/ token_falsy(g.obj.auth_token)
            THEN H(g.row, g.n, SESSION_EXPIRED_REPLY, <<>>)
            ELSE IF list_id = "patient_records"
            THEN H(g.row, g.n, REQUEST_ERROR_REPLY, <<BackendCall("get_patient_records")>>)
            ELSE IF list_id = "patient_medicines"
            THEN Listing(g, "get_patient_medications", "no_medications", "medications_list")
            ELSE IF list_id = "patient_procedures"
            THEN Listing(g, "get_patient_procedures", "no_procedures", "procedures_list")
            ELSE IF list_id = "patient_appointments"
            THEN Listing(g, "get_patient_appointments", "no_appointments", "appointments_list")
            ELSE IF list_id = "help"
            THEN CatchAll(_get_help_message(g.obj, g.row, g.n, f, be), REQUEST_ERROR_REPLY)
            ELSE H(g.row, g.n, R("unrecognized_selection"), <<>>)
    IN Got(get_or_create_session(row, n, f))

_process_interactive_message(row, n, f, interactive_data, be) ==
    CatchAll(
      IF interactive_data.type = "button_reply"
      THEN _handle_button_interaction(row, n, f, interactive_data.id)
      ELSE IF interactive_data.type = "list_reply"
      THEN _handle_list_interaction(row, n, f, interactive_data.id, be)
      ELSE H(row, n, R("interactive_not_handled"), <<>>),
      R("interactive_error"))

_process_button_message(row, n, f, button_text, be) ==
    CatchAll(_process_text_message(row, n, f, button_text, be), R("button_error"))

\* message_data: type, the text body (text) or the button text (button), and
\* the interactive payload.  Every reply is a non-empty string, so the
\* outgoing log_message always runs.
process_message(row, f, message_data, be) ==
    LET Logged(h, o) == [h EXCEPT !.row = o.row, !.n = o.n]
        Handled(h) == CatchAll(IF h.exc THEN h ELSE Logged(h, log_message(h.row, h.n, f)), ERROR_REPLY)
        Incoming(l) ==
            Handled(IF message_data.type = "text"
                    THEN _process_text_message(l.row, l.n, f, message_data.text, be)
                    ELSE IF message_data.type = "interactive"
                    THEN _process_interactive_message(l.row, l.n, f, message_data.interactive, be)
                    ELSE IF message_data.type = "button"
                    THEN _process_button_message(l.row, l.n, f, message_data.text, be)
                    ELSE H(l.row, l.n, R("unsupported_message_type"), <<>>))
    IN Incoming(log_message(row, 0, f))


----------------------------------------------------------------------------
(* The inbound events and operations the model draws from *)

Ids == {"u1"}

ShortTtl == 20

TickSteps == {20, 31}

T_HI == <<"h", "i">>
T_PATIENT == <<"p", "a", "t", "i", "e", "n", "t">>
T_STAFF == <<"s", "t", "a", "f", "f">>
T_HELP == <<"h", "e", "l", "p">>
T_LOGOUT == <<"l", "o", "g", "o", "u", "t">>
T_LOGOUT_UPPER == <<"L", "O", "G", "O", "U", "T">>
T_RESTART == <<"r", "e", "s", "t", "a", "r", "t">>
T_PATIENT_ID == <<"P", "1", "2", "3", "4", "5">>
T_SHORT_ID == <<"P", "1", "2">>
T_STAFF_CRED == <<"S", "T", "A", "F", "F", "1", ":", "a", "b", "c", "d", "e", "f">>
T_STAFF_ID == <<"S", "T", "A", "F", "F", "1">>
T_MEDICINES == <<"m", "e", "d", "i", "c", "i", "n", "e", "s">>
T_RECORDS == <<"r", "e", "c", "o", "r", "d", "s">>
T_PATIENTS == <<"p", "a", "t", "i", "e", "n", "t", "s">>
T_SEARCH == <<"s", "e", "a", "r", "c", "h", " ", "P", "1", "2", "3", "4", "5">>

Texts ==
    { T_HI, T_PATIENT, T_STAFF, T_HELP, T_LOGOUT, T_LOGOUT_UPPER, T_RESTART, T_PATIENT_ID,
      T_SHORT_ID, T_STAFF_CRED, T_MEDICINES, T_RECORDS, T_PATIENTS, T_SEARCH }

NoInteractive == [type |-> "", id |-> ""]

TextMessage(body) == [type |-> "text", text |-> body, interactive |-> NoInteractive]

ButtonMessage(body) == [type |-> "button", text |-> body, interactive |-> NoInteractive]

InteractiveMessage(type, id) ==
    [type |-> "interactive", text |-> <<>>, interactive |-> [type |-> type, id |-> id]]

Messages ==
    { TextMessage(t) : t \in Texts }
    \cup { ButtonMessage(T_PATIENT), ButtonMessage(T_LOGOUT) }
    \cup { InteractiveMessage("button_reply", b) : b \in {"patient_access", "staff_access", "help_info", "other"} }
    \cup { InteractiveMessage("list_reply", l) : l \in {"patient_records", "patient_medicines", "help", "other"} }
    \cup { InteractiveMessage("nfm_reply", ""),
           [type |-> "image", text |-> <<>>, interactive |-> NoInteractive] }

\* the events handled while a collaborator call fails: one of every type and
\* for every handler
FaultMessages ==
    { TextMessage(t) : t \in {T_HI, T_HELP, T_LOGOUT, T_RESTART, T_PATIENT_ID, T_STAFF_CRED,
                              T_MEDICINES, T_PATIENTS} }
    \cup { ButtonMessage(T_PATIENT),
           InteractiveMessage("button_reply", "patient_access"),
           InteractiveMessage("button_reply", "staff_access"),
           InteractiveMessage("list_reply", "patient_medicines"),
           InteractiveMessage("list_reply", "help"),
           InteractiveMessage("nfm_reply", ""),
           [type |-> "image", text |-> <<>>, interactive |-> NoInteractive] }

NoMessage == [type |-> "", text |-> <<>>, interactive |-> NoInteractive]

NoBackend == [first |-> "", access |-> "", second |-> "", results |-> ""]

\* whether the failing call was reached
Felt(f, n) == \E k \in f : k <= n

Event(op, id, m, be, failed) == [op |-> op, id |-> id, msg |-> m, be |-> be, failed |-> failed]

----------------------------------------------------------------------------
(* utils/rate_limiter.py.  Times are in ticks and bucket contents in         *)
(* 1/TicksPerSecond of a token: elapsed * refill_rate is then exact, and     *)
(* tokens_needed / refill_rate is rounded up to the next tick (time.sleep    *)
(* never returns early).  time.time() is taken to be non-decreasing.         *)

Min(a, b) == IF a <= b THEN a ELSE b

CeilDiv(a, b) == (a + b - 1) \div b

\* RateLimiter.__init__ at time t: the bucket starts full
RateLimiter(refill_rate, bucket_size, t) ==
    [refill_rate |-> refill_rate, bucket_size |-> bucket_size * TicksPerSecond,
     tokens |-> bucket_size * TicksPerSecond, last_refill |-> t]

_rate_limiters ==
    [whatsapp_send |-> RateLimiter(5, 10, 0),
     whatsapp_read |-> RateLimiter(10, 20, 0),
     care_api |-> RateLimiter(2, 5, 0)]

\* the value _refill computes for self.tokens at time t
refilled_tokens(l, t) == Min(l.bucket_size, l.tokens + (t - l.last_refill) * l.refill_rate)

_refill_mut_no_cap(l, t) ==
    [l EXCEPT !.tokens = l.tokens + (t - l.last_refill) * l.refill_rate, !.last_refill = t]

_refill_mut_no_add(l, t) == [l EXCEPT !.last_refill = t]

_refill(l, t) == [l EXCEPT !.tokens = refilled_tokens(l, t), !.last_refill = t]

consume_mut_strict(l, t, tokens) ==
    LET r == _refill(l, t)
    IN IF tokens * TicksPerSecond < r.tokens
       THEN [limiter |-> [r EXCEPT !.tokens = @ - tokens * TicksPerSecond], granted |-> TRUE, wait_time |-> 0, t |-> t]
       ELSE [limiter |-> r, granted |-> FALSE, wait_time |-> 0, t |-> t]

\* consume(tokens) called at time t: the limiter afterwards and the value returned
consume(l, t, tokens) ==
    LET r == _refill(l, t)
    IN IF tokens * TicksPerSecond <= r.tokens
       THEN [limiter |-> [r EXCEPT !.tokens = @ - tokens * TicksPerSecond], granted |-> TRUE, wait_time |-> 0, t |-> t]
       ELSE [limiter |-> r, granted |-> FALSE, wait_time |-> 0, t |-> t]

\* wait_time of wait_for_tokens for a bucket holding `have`
wait_time_for(tokens, have, refill_rate) == CeilDiv(tokens * TicksPerSecond - have, refill_rate)

wait_for_tokens_mut_keep_tokens(l, t, tokens, late) ==
    LET r == _refill(l, t)
        wait_time == wait_time_for(tokens, r.tokens, r.refill_rate)
        woke == t + wait_time + late
    IN IF tokens * TicksPerSecond <= r.tokens
       THEN [limiter |-> [r EXCEPT !.tokens = @ - tokens * TicksPerSecond], granted |-> TRUE, wait_time |-> 0, t |-> t]
       ELSE [limiter |-> [r EXCEPT !.last_refill = woke],
             granted |-> FALSE, wait_time |-> wait_time, t |-> woke]

\* wait_for_tokens(tokens) called at time t; the sleep returns `late` ticks
\* after wait_time has passed.  t is the time at which the call returns.
wait_for_tokens(l, t, tokens, late) ==
    LET r == _refill(l, t)
        wait_time == wait_time_for(tokens, r.tokens, r.refill_rate)
        woke == t + wait_time + late
    IN IF tokens * TicksPerSecond <= r.tokens
       THEN [limiter |-> [r EXCEPT !.tokens = @ - tokens * TicksPerSecond], granted |-> TRUE, wait_time |-> 0, t |-> t]
       ELSE [limiter |-> [r EXCEPT !.tokens = 0, !.last_refill = woke],
             granted |-> FALSE, wait_time |-> wait_time, t |-> woke]

GatewayCall(name) == [kind |-> "gateway", name |-> name]

\* the wrapper of rate_limited(limiter_key), up to the call of func: the
\* limiters afterwards, the time at which func is entered and the wait logged
\* (none when no limiter is configured under the key)
rate_limited_mut_default_bucket(limiters, limiter_key, t, late) ==
    LET Waited(key, w) ==
            [limiters |-> [limiters EXCEPT ![key] = w.limiter], t |-> w.t,
             log |-> <<LimiterWait(key)>>, wait_time |-> w.wait_time]
        Limited(key) == Waited(key, wait_for_tokens(limiters[key], t, 1, late))
    IN Limited(IF limiter_key \in DOMAIN limiters THEN limiter_key ELSE "whatsapp_read")

rate_limited(limiters, limiter_key, t, late) ==
    IF limiter_key \notin DOMAIN limiters
    THEN [limiters |-> limiters, t |-> t, log |-> <<>>, wait_time |-> 0]
    ELSE LET w == wait_for_tokens(limiters[limiter_key], t, 1, late)
         IN [limiters |-> [limiters EXCEPT ![limiter_key] = w.limiter], t |-> w.t,
             log |-> <<LimiterWait(limiter_key)>>, wait_time |-> w.wait_time]

----------------------------------------------------------------------------
(* whatsapp_bot/client.py.  http is the outcome of requests.post ("ok", or   *)
(* "error" for any RequestException); too_long is                            *)
(* len(message_text) > MAX_TEXT_LENGTH.                                      *)

Sent(w, name, too_long, http) ==
    [limiters |-> w.limiters, t |-> w.t, wait_time |-> w.wait_time,
     log |-> IF too_long THEN w.log ELSE Append(w.log, GatewayCall(name)),
     result |-> IF too_long \/ http = "error" THEN "raised" ELSE "json"]

send_message(limiters, t, late, too_long, http) ==
    Sent(rate_limited(limiters, "whatsapp_send", t, late), "send_message", too_long, http)

send_template_message(limiters, t, late, http) ==
    Sent(rate_limited(limiters, "whatsapp_send", t, late), "send_template_message", FALSE, http)

send_interactive_message(limiters, t, late, too_long, http) ==
    Sent(rate_limited(limiters, "whatsapp_send", t, late), "send_interactive_message", too_long, http)

mark_message_as_read(limiters, t, late, message_id, http) ==
    LET w == rate_limited(limiters, "whatsapp_status", t, late)
    IN [limiters |-> w.limiters, t |-> w.t, wait_time |-> w.wait_time,
        log |-> IF message_id = "" THEN w.log ELSE Append(w.log, GatewayCall("mark_message_as_read")),
        result |-> IF message_id = "" \/ http = "error" THEN "false" ELSE "true"]

----------------------------------------------------------------------------
(* State after construction: an empty user_sessions table, full buckets *)

NoReturn == [granted |-> FALSE, wait_time |-> 0, asked |-> 0]

\* no consume call stands denied
NoDenial == [key |-> "", tokens |-> 0, at |-> 0, have |-> 0, retried |-> FALSE]


IdleThread == [pc |-> "idle", op |-> "", tokens |-> 0, value |-> 0, at |-> 0]

\* no generate_token call has been made
NoIssue == [token |-> NoToken, user_id |-> <<>>, user_type |-> "", expiry_minutes |-> 0, at |-> 0]

Init ==
    /\ db = [id \in Ids |-> NoSession]
    /\ now = 0
    /\ reply = R("none")
    /\ calls = <<>>
    /\ ev = Event("init", "", NoMessage, NoBackend, FALSE)
    /\ buckets = _rate_limiters
    /\ rlnow = 0
    /\ rlret = NoReturn
    /\ wpc = [w \in Workers |-> "idle"]
    /\ wop = [w \in Workers |-> [name |-> "", arg |-> ""]]
    /\ wlocal = [w \in Workers |-> NoSession]
    /\ wbase = NoSession
    /\ tpc = [t \in Threads |-> IdleThread]
    /\ tgrant = [started |-> 0, granted |-> 0]
    /\ issued = NoIssue
    /\ payload = NoPayload
    /\ held = NoToken
    /\ denied = NoDenial
    /\ grantlog = [t \in 0..MaxLimiterTime |-> 0]
    /\ table = {}
    /\ gpc = [w \in Workers |-> IdleCall]

otherVars == <<buckets, rlnow, rlret, denied, grantlog, wpc, wop, wlocal, wbase, tpc, tgrant, issued, payload, held, table, gpc>>

----------------------------------------------------------------------------
(* Actions of the conversation engine and the session store *)

\* the caller of process_message receives h: the row is stored, the reply
\* returned (an exception if one propagates)
Deliver(id, m, be, f, h) ==
    /\ db' = [db EXCEPT ![id] = h.row]
    /\ reply' = h.reply
    /\ calls' = h.calls
    /\ ev' = Event("process_message", id, m,
                   IF h.calls = <<>> THEN NoBackend ELSE be, Felt(f, h.n))
    /\ UNCHANGED <<now, otherVars>>

\* IMBotService.process_message(from_number, message_data)
ProcessMessage(id, m, be, f) == Deliver(id, m, be, f, process_message(db[id], f, m, be))

\* a SessionManager operation called on its own (the webhook views do so)
StoreOp(id, op, r) ==
    /\ db' = [db EXCEPT ![id] = r.row]
    /\ reply' = R(IF r.exc THEN "exception" ELSE "returned")
    /\ calls' = <<>>
    /\ ev' = Event(op, id, NoMessage, NoBackend, FALSE)
    /\ UNCHANGED <<now, otherVars>>

GetOrCreateSession(id) == StoreOp(id, "get_or_create_session", get_or_create_session(db[id], 0, NoFailure))

UpdateSessionState(id, state, data) ==
    StoreOp(id, "update_session_state", update_session_state(db[id], 0, NoFailure, state, data))

AuthenticateUser(id, user_type, user_id, token) ==
    StoreOp(id, "authenticate_user", authenticate_user(db[id], 0, NoFailure, user_type, user_id, token))

GetSessionData(id) == StoreOp(id, "get_session_data", get_session_data(db[id], 0, NoFailure))

ClearSession(id) == StoreOp(id, "clear_session", clear_session(db[id], 0, NoFailure))

LogoutUser(id) == StoreOp(id, "logout_user", logout_user(db[id], 0, NoFailure))

\* time passes between events
Tick(d) ==
    /\ now + d <= MaxTime
    /\ now' = now + d
    /\ reply' = R("none")
    /\ calls' = <<>>
    /\ ev' = Event("tick", "", NoMessage, NoBackend, FALSE)
    /\ UNCHANGED <<db, otherVars>>

\* the tokens a caller of authenticate_user passes: none, the backend's, or
\* one it had generate_token issue with its own expiry
CallerTokens(user_id, user_type) ==
    {NoToken, OpaqueToken("T1"), generate_token(user_id, user_type, ShortTtl)}

\* The backend's behaviour is enumerated only for an event that consults it:
\* to an event that makes no backend call every behaviour is the same event.
B_OK == [first |-> "ok", access |-> "T1", second |-> "ok", results |-> "some"]

BackendFor(h) == IF h.calls = <<>> THEN {B_OK} ELSE BackendOutcomes

\* process_message with every collaborator call succeeding
Converse(id, m) ==
    LET Outcome(h) ==
            \E be \in BackendFor(h) :
                IF be = B_OK THEN Deliver(id, m, be, NoFailure, h) ELSE ProcessMessage(id, m, be, NoFailure)
    IN Outcome(process_message(db[id], NoFailure, m, B_OK))

Next ==
    \/ \E id \in Ids, m \in Messages : Converse(id, m)
    \/ \E id \in Ids : GetOrCreateSession(id)
    \/ \E id \in Ids, state \in {PATIENT_MENU, STAFF_MENU} : UpdateSessionState(id, state, EmptyData)
    \/ \E id \in Ids : AuthenticateUser(id, "patient", T_PATIENT_ID, NoToken)
    \/ \E id \in Ids : \E token \in CallerTokens(T_STAFF_ID, "staff") :
          AuthenticateUser(id, "staff", T_STAFF_ID, token)
    \/ \E id \in Ids : GetSessionData(id)
    \/ \E id \in Ids : ClearSession(id)
    \/ \E id \in Ids : LogoutUser(id)
    \/ \E d \in TickSteps : Tick(d)

Spec == Init /\ [][Next]_vars



----------------------------------------------------------------------------
(* process_message when one collaborator call of the event raises *)

\* one of the calls the event makes with this backend behaviour raises
ProcessMessageFaulty(id, m) ==
    LET Failing(be, calls_made) == \E k \in 1..calls_made : ProcessMessage(id, m, be, {k})
        Outcome(h) ==
            \E be \in BackendFor(h) :
                Failing(be, IF be = B_OK THEN h.n ELSE process_message(db[id], NoFailure, m, be).n)
    IN Outcome(process_message(db[id], NoFailure, m, B_OK))

NextFaults ==
    \/ \E id \in Ids, m \in FaultMessages : ProcessMessageFaulty(id, m)
    \/ \E id \in Ids, m \in Messages : Converse(id, m)
    \/ \E id \in Ids : AuthenticateUser(id, "patient", T_PATIENT_ID, NoToken)
    \/ \E id \in Ids : AuthenticateUser(id, "staff", T_STAFF_ID, NoToken)
    \/ \E d \in FaultTickSteps : Tick(d)

SpecFaults == Init /\ [][NextFaults]_vars

----------------------------------------------------------------------------
(* The rate limiter and the messaging gateway client used by one caller *)

\* what the history records of a call: a denied consume is remembered, a
\* granted consume of the same size on the same bucket is its retry, and any
\* other call that changes the denied bucket ends the record
Denial(op, key, r) ==
    IF op = "consume" /\ ~r.granted
    THEN [key |-> key, tokens |-> r.asked, at |-> r.t, have |-> r.limiters[key].tokens, retried |-> FALSE]
    ELSE IF op = "consume" /\ denied.key = key /\ denied.tokens = r.asked /\ ~denied.retried
    THEN [denied EXCEPT !.retried = TRUE]
    ELSE IF denied # NoDenial /\ r.limiters[denied.key] # buckets[denied.key]
    THEN NoDenial
    ELSE denied

\* the limiter whose grants are recorded
LoggedKey == "whatsapp_read"

\* the tokens a call on the recorded limiter hands to its caller when it
\* returns: consume those it deducted, wait_for_tokens those it was asked for
Granted(op, key, r) ==
    IF key = LoggedKey /\ (op = "wait_for_tokens" \/ (op = "consume" /\ r.granted))
    THEN r.asked * TicksPerSecond
    ELSE 0

LimiterDone(op, key, r, log) ==
    /\ r.t <= MaxLimiterTime
    /\ buckets' = r.limiters
    /\ rlnow' = r.t
    /\ rlret' = [granted |-> r.granted, wait_time |-> r.wait_time, asked |-> r.asked]
    /\ denied' = Denial(op, key, r)
    /\ grantlog' = [grantlog EXCEPT ![r.t] = @ + Granted(op, key, r)]
    /\ calls' = log
    /\ ev' = Event(op, key, NoMessage, NoBackend, FALSE)
    /\ UNCHANGED <<db, now, reply, workerVars, threadVars, tokenVars, tableVars>>

\* RateLimiter.consume(tokens) on the limiter of a key
Consume(key, tokens) ==
    LET c == consume(buckets[key], rlnow, tokens)
    IN LimiterDone("consume", key,
                   [limiters |-> [buckets EXCEPT ![key] = c.limiter], t |-> c.t,
                    granted |-> c.granted, wait_time |-> c.wait_time, asked |-> tokens], <<>>)

\* RateLimiter.wait_for_tokens(tokens) on the limiter of a key
WaitForTokens(key, tokens, late) ==
    LET w == wait_for_tokens(buckets[key], rlnow, tokens, late)
    IN LimiterDone("wait_for_tokens", key,
                   [limiters |-> [buckets EXCEPT ![key] = w.limiter], t |-> w.t,
                    granted |-> w.granted, wait_time |-> w.wait_time, asked |-> tokens], <<>>)

GatewayDone(op, s) ==
    LimiterDone(op, "", [limiters |-> s.limiters, t |-> s.t,
                         granted |-> s.wait_time = 0, wait_time |-> s.wait_time, asked |-> 1], s.log)

SendMessage(late, too_long, http) ==
    GatewayDone("send_message", send_message(buckets, rlnow, late, too_long, http))

SendTemplateMessage(late, http) ==
    GatewayDone("send_template_message", send_template_message(buckets, rlnow, late, http))

SendInteractiveMessage(late, too_long, http) ==
    GatewayDone("send_interactive_message", send_interactive_message(buckets, rlnow, late, too_long, http))

MarkMessageAsRead(late, message_id, http) ==
    GatewayDone("mark_message_as_read", mark_message_as_read(buckets, rlnow, late, message_id, http))

\* time passes between calls
Advance(d) ==
    /\ rlnow + d <= MaxLimiterTime
    /\ rlnow' = rlnow + d
    /\ rlret' = NoReturn
    /\ calls' = <<>>
    /\ ev' = Event("tick", "", NoMessage, NoBackend, FALSE)
    /\ UNCHANGED <<db, now, reply, buckets, denied, grantlog, workerVars, threadVars, tokenVars, tableVars>>

NextLimiter ==
    \/ \E key \in DirectKeys, tokens \in TokenCounts : Consume(key, tokens)
    \/ \E key \in DirectKeys, tokens \in TokenCounts, late \in LateBy : WaitForTokens(key, tokens, late)
    \/ \E late \in LateBy, too_long \in BOOLEAN, http \in HttpOutcomes : SendMessage(late, too_long, http)
    \/ \E late \in LateBy, http \in HttpOutcomes : SendTemplateMessage(late, http)
    \/ \E late \in LateBy, too_long \in BOOLEAN, http \in HttpOutcomes : SendInteractiveMessage(late, too_long, http)
    \/ \E late \in LateBy, message_id \in MessageIds, http \in HttpOutcomes : MarkMessageAsRead(late, message_id, http)
    \/ \E d \in LimiterSteps : Advance(d)

SpecLimiter == Init /\ [][NextLimiter]_vars

----------------------------------------------------------------------------
(* Threads calling consume / wait_for_tokens on one RateLimiter.  The class *)
(* takes no lock, so a thread can be preempted between the loads and the     *)
(* stores of _refill, between the comparison and the subtraction, and inside *)
(* `self.tokens -= tokens`.                                                  *)

ThreadStep(t, next) ==
    /\ tpc' = [tpc EXCEPT ![t] = next]
    /\ UNCHANGED <<engineVars, rlret, denied, grantlog, workerVars, tokenVars, tableVars>>

\* a thread enters consume(tokens) or wait_for_tokens(tokens)
TCall(t, op, tokens) ==
    /\ tpc[t].pc = "idle"
    /\ tgrant.started < MaxThreadCalls
    /\ tgrant' = [tgrant EXCEPT !.started = @ + 1]
    /\ ThreadStep(t, [IdleThread EXCEPT !.pc = "refill_load", !.op = op, !.tokens = tokens])
    /\ UNCHANGED <<buckets, rlnow>>

\* _refill: now, elapsed, tokens_to_add and the new value are computed
TRefillLoad(t) ==
    /\ tpc[t].pc = "refill_load"
    /\ ThreadStep(t, [tpc[t] EXCEPT !.pc = "refill_store",
                                    !.value = refilled_tokens(buckets[ThreadKey], rlnow),
                                    !.at = rlnow])
    /\ UNCHANGED <<buckets, rlnow, tgrant>>

\* _refill: self.tokens and self.last_refill are stored
TRefillStore(t) ==
    /\ tpc[t].pc = "refill_store"
    /\ buckets' = [buckets EXCEPT ![ThreadKey].tokens = tpc[t].value,
                                  ![ThreadKey].last_refill = tpc[t].at]
    /\ ThreadStep(t, [tpc[t] EXCEPT !.pc = "check"])
    /\ UNCHANGED <<rlnow, tgrant>>

\* `if tokens <= self.tokens`; when it fails consume returns False and
\* wait_for_tokens computes wait_time and goes to sleep
TCheck(t) ==
    /\ tpc[t].pc = "check"
    /\ LET l == buckets[ThreadKey]
       IN IF tpc[t].tokens * TicksPerSecond <= l.tokens
          THEN ThreadStep(t, [tpc[t] EXCEPT !.pc = "sub_load"])
          ELSE IF tpc[t].op = "consume"
          THEN ThreadStep(t, IdleThread)
          ELSE ThreadStep(t, [tpc[t] EXCEPT !.pc = "sleep",
                                            !.at = rlnow + wait_time_for(tpc[t].tokens, l.tokens, l.refill_rate)])
    /\ UNCHANGED <<buckets, rlnow, tgrant>>

\* `self.tokens -= tokens`: the load and the subtraction
TSubLoad(t) ==
    /\ tpc[t].pc = "sub_load"
    /\ ThreadStep(t, [tpc[t] EXCEPT !.pc = "sub_store",
                                    !.value = buckets[ThreadKey].tokens - tpc[t].tokens * TicksPerSecond])
    /\ UNCHANGED <<buckets, rlnow, tgrant>>

\* `self.tokens -= tokens`: the store; the call returns True (0.0)
TSubStore(t) ==
    /\ tpc[t].pc = "sub_store"
    /\ buckets' = [buckets EXCEPT ![ThreadKey].tokens = tpc[t].value]
    /\ tgrant' = [tgrant EXCEPT !.granted = @ + tpc[t].tokens * TicksPerSecond]
    /\ ThreadStep(t, IdleThread)
    /\ UNCHANGED rlnow

\* time.sleep(wait_time) is over: tokens = 0, last_refill = time.time()
TWake(t) ==
    /\ tpc[t].pc = "sleep"
    /\ rlnow >= tpc[t].at
    /\ buckets' = [buckets EXCEPT ![ThreadKey].tokens = 0, ![ThreadKey].last_refill = rlnow]
    /\ ThreadStep(t, IdleThread)
    /\ UNCHANGED <<rlnow, tgrant>>

TAdvance(d) ==
    /\ rlnow + d <= MaxThreadTime
    /\ rlnow' = rlnow + d
    /\ UNCHANGED <<engineVars, buckets, rlret, denied, grantlog, workerVars, threadVars, tokenVars, tableVars>>

NextThreads ==
    \/ \E t \in Threads, op \in {"consume", "wait_for_tokens"}, tokens \in ThreadTokenCounts : TCall(t, op, tokens)
    \/ \E t \in Threads : TRefillLoad(t)
    \/ \E t \in Threads : TRefillStore(t)
    \/ \E t \in Threads : TCheck(t)
    \/ \E t \in Threads : TSubLoad(t)
    \/ \E t \in Threads : TSubStore(t)
    \/ \E t \in Threads : TWake(t)
    \/ \E d \in ThreadSteps : TAdvance(d)

SpecThreads == Init /\ [][NextThreads]_vars

----------------------------------------------------------------------------
(* Two web workers running SessionManager operations for the same identity. *)
(* Each operation loads the row into an object of its own                    *)
(* (objects.get_or_create), clears it when it has expired, changes fields of *)
(* the object and writes every column back with save().  No lock and no      *)
(* transaction spans these steps.                                            *)

WorkerOps ==
    { [name |-> "logout_user", arg |-> ""],
      [name |-> "clear_session", arg |-> ""],
      [name |-> "authenticate_user", arg |-> "patient"],
      [name |-> "update_session_state", arg |-> PATIENT_MENU],
      [name |-> "update_session_state", arg |-> STAFF_MENU] }

NoOp == [name |-> "", arg |-> ""]

\* the operation run alone on a stored row: the row stored afterwards
Serial(op, row) ==
    IF op.name = "logout_user" THEN logout_user(row, 0, NoFailure).row
    ELSE IF op.name = "clear_session" THEN clear_session(row, 0, NoFailure).row
    ELSE IF op.name = "authenticate_user"
         THEN authenticate_user(row, 0, NoFailure, op.arg, T_PATIENT_ID, NoToken).row
    ELSE update_session_state(row, 0, NoFailure, op.arg, EmptyData).row

\* the field changes of the operation on its session object, before save()
Changed(op, obj) ==
    IF op.name = "logout_user"
    THEN [obj EXCEPT !.is_authenticated = FALSE, !.auth_token = NoToken, !.current_state = STATE_NEW]
    ELSE IF op.name = "clear_session" THEN clear_session_fields(obj)
    ELSE IF op.name = "authenticate_user"
         THEN [obj EXCEPT !.user_type = op.arg, !.is_authenticated = TRUE,
                          !.auth_token = generate_token(T_PATIENT_ID, op.arg, TOKEN_EXPIRY_MINUTES),
                          !.session_data = DictSet(@, "user_id", T_PATIENT_ID)]
    ELSE update_session_fields(obj, op.arg, EmptyData)

WorkerStep(w, pc, obj) ==
    /\ wpc' = [wpc EXCEPT ![w] = pc]
    /\ wlocal' = [wlocal EXCEPT ![w] = obj]
    /\ UNCHANGED <<now, reply, calls, ev, wop, wbase, limiterVars, threadVars, tokenVars, tableVars>>

\* two events for the identity arrive together
WBegin(op1, op2) ==
    /\ \A w \in Workers : wpc[w] = "idle"
    /\ wpc' = [w \in Workers |-> "load"]
    /\ wop' = [w \in Workers |-> IF w = 1 THEN op1 ELSE op2]
    /\ wbase' = db[WorkerId]
    /\ UNCHANGED <<engineVars, wlocal, limiterVars, threadVars, tokenVars, tableVars>>

\* UserSession.objects.get_or_create
WLoad(w) ==
    /\ wpc[w] = "load"
    /\ IF db[WorkerId] = NoSession
       THEN /\ db' = [db EXCEPT ![WorkerId] = created_session]
            /\ WorkerStep(w, "change", created_session)
       ELSE /\ UNCHANGED db
            /\ WorkerStep(w, "expire", db[WorkerId])

\* the expiry checks of get_or_create_session on the loaded object
WExpire(w) ==
    /\ wpc[w] = "expire"
    /\ IF is_session_expired(wlocal[w])
          \/ (~token_falsy(wlocal[w].auth_token) /\ is_token_expired(wlocal[w].auth_token))
       THEN /\ db' = [db EXCEPT ![WorkerId] = save(clear_session_fields(wlocal[w]))]
            /\ WorkerStep(w, "change", save(clear_session_fields(wlocal[w])))
       ELSE /\ UNCHANGED db
            /\ WorkerStep(w, "change", wlocal[w])

\* the operation changes its object and saves it
WChange(w) ==
    /\ wpc[w] = "change"
    /\ db' = [db EXCEPT ![WorkerId] = save(Changed(wop[w], wlocal[w]))]
    /\ WorkerStep(w, "done", save(Changed(wop[w], wlocal[w])))

\* both events have been handled
WEnd ==
    /\ \A w \in Workers : wpc[w] = "done"
    /\ wpc' = [w \in Workers |-> "idle"]
    /\ wop' = [w \in Workers |-> NoOp]
    /\ wlocal' = [w \in Workers |-> NoSession]
    /\ wbase' = NoSession
    /\ UNCHANGED <<engineVars, limiterVars, threadVars, tokenVars, tableVars>>

\* time passes between events
WTick(d) ==
    /\ \A w \in Workers : wpc[w] = "idle"
    /\ now + d <= MaxTime
    /\ now' = now + d
    /\ UNCHANGED <<db, reply, calls, ev, workerVars, limiterVars, threadVars, tokenVars, tableVars>>

NextWorkers ==
    \/ \E op1 \in WorkerOps, op2 \in WorkerOps : WBegin(op1, op2)
    \/ \E w \in Workers : WLoad(w)
    \/ \E w \in Workers : WExpire(w)
    \/ \E w \in Workers : WChange(w)
    \/ WEnd
    \/ \E d \in TickSteps : WTick(d)

SpecWorkers == Init /\ [][NextWorkers]_vars

----------------------------------------------------------------------------
(* Claims checked under Spec; C8 below is checked under Spec as well *)

Exists(id) == db[id] # NoSession

TokenValid(token) == ~token_falsy(token) /\ ~is_token_expired(token)

\* C1: in every reachable state a stored session that is authenticated holds
\* a token that is present, locally signed and unexpired.
C1_StoredAuthenticatedHasValidToken ==
    \A id \in Ids : (Exists(id) /\ db[id].is_authenticated) => TokenValid(db[id].auth_token)

BackendAuthenticates(be) == be.first = "ok" /\ be.access # "" /\ be.second = "ok"

\* C2: after process_message handled an authentication input for which the
\* backend reported authenticated=true with a token, the stored session is in
\* the menu state of the role, authenticated, holds that token and the user id
\* (for staff also role and name).
C2_AuthSuccessStoresAuthenticatedMenu ==
    \A id \in Ids :
        (/\ ev.op = "process_message" /\ ev.id = id
         /\ calls # <<>> /\ calls[1].name \in {"authenticate_patient", "authenticate_staff"}
         /\ BackendAuthenticates(ev.be))
        => /\ db[id].current_state = (IF calls[1].name = "authenticate_patient" THEN PATIENT_MENU ELSE STAFF_MENU)
           /\ db[id].is_authenticated
           /\ db[id].auth_token = OpaqueToken(ev.be.access)
           /\ "user_id" \in DOMAIN db[id].session_data
           /\ (calls[1].name = "authenticate_staff"
                 => {"staff_role", "staff_name"} \subseteq DOMAIN db[id].session_data)

\* C3: for an unseen identity "hi" gives the role prompt and state
\* USER_TYPE_SELECTION, and a following "patient" gives the patient-ID prompt
\* and state PATIENT_AUTH.
C3_First ==
    \A id \in Ids :
        (ev.op = "process_message" /\ ev.id = id /\ ev.msg = TextMessage(T_HI) /\ reply = WELCOME_REPLY)
        => db[id].current_state = USER_TYPE_SELECTION

C3_Second ==
    \A id \in Ids :
        (/\ ev.op = "process_message" /\ ev.id = id /\ ev.msg = TextMessage(T_HI) /\ reply = WELCOME_REPLY
         /\ ev'.op = "process_message" /\ ev'.id = id /\ ev'.msg = TextMessage(T_PATIENT))
        => (reply' = PATIENT_ID_PROMPT /\ db'[id].current_state = "patient_auth")

C3_HiThenPatient == []C3_First /\ [][C3_Second]_vars

\* C4: a text event `logout`, in whatever state it is sent, leaves the session
\* unauthenticated, without token and in state NEW, and is answered with the
\* logout confirmation.
C4_LogoutResets ==
    \A id \in Ids :
        (ev.op = "process_message" /\ ev.id = id /\ ev.msg.type = "text" /\ lower(ev.msg.text) = CMD_LOGOUT)
        => /\ Exists(id)
           /\ ~db[id].is_authenticated
           /\ db[id].auth_token = NoToken
           /\ db[id].current_state = STATE_NEW
           /\ reply = LOGOUT_REPLY

\* a logged-in staff member (role and name stored) has just logged out
C4_Witness ==
    \E id \in Ids :
        /\ ev.op = "process_message" /\ ev.id = id /\ ev.msg = TextMessage(T_LOGOUT)
        /\ reply = LOGOUT_REPLY
        /\ db[id].user_type = "staff"
        /\ "user_id" \in DOMAIN db[id].session_data


----------------------------------------------------------------------------
(* Claims checked under SpecWorkers, SpecThreads, SpecLimiter and SpecFaults *)

AllDone == \A w \in Workers : wpc[w] = "done"

\* C5: when two concurrent events of one identity have both been handled, the
\* stored session is what handling them one after the other, in one of the
\* two orders, would have stored.
C5_SerialOutcome ==
    AllDone => db[WorkerId] \in { Serial(wop[2], Serial(wop[1], wbase)),
                                  Serial(wop[1], Serial(wop[2], wbase)) }

\* C6: under every interleaving of consume / wait_for_tokens calls on one
\* RateLimiter, tokens never becomes negative and the tokens granted without
\* waiting never exceed the tokens the bucket has held (its size plus what
\* the refill rate has added since).
C6_NoOverdraw ==
    /\ buckets[ThreadKey].tokens >= 0
    /\ tgrant.granted <= _rate_limiters[ThreadKey].bucket_size
                          + rlnow * _rate_limiters[ThreadKey].refill_rate

\* C7: after every consume(n) and wait_for_tokens(n) call of a single caller,
\* 0 <= tokens <= bucket_size.
C7_BucketBound ==
    \A key \in DOMAIN buckets :
        0 <= buckets[key].tokens /\ buckets[key].tokens <= buckets[key].bucket_size

\* a wait_for_tokens call that had to wait has returned, after time had
\* passed since the bucket was last drawn from
C7_Witness ==
    /\ ev.op = "wait_for_tokens"
    /\ rlret.wait_time > 0
    /\ buckets[ev.id].tokens = 0
    /\ rlnow > rlret.wait_time

\* C8: every call of the engine to the backend record API is preceded by a
\* wait_for_tokens on the 'care_api' limiter.
C8_BackendCallsWaitFirst ==
    \A i \in DOMAIN calls :
        calls[i].kind = "backend" => (i > 1 /\ calls[i - 1] = LimiterWait("care_api"))

\* C9: every messaging-gateway call is preceded by the taking of a token from
\* a configured limiter.
C9_GatewayCallsTakeToken ==
    \A i \in DOMAIN calls :
        calls[i].kind = "gateway"
        => (i > 1 /\ calls[i - 1].kind = "wait" /\ calls[i - 1].name \in DOMAIN buckets)

\* C10: process_message hands its caller a reply for every inbound event and
\* every failing collaborator call; no exception leaves it.
C10_AlwaysReplies ==
    ev.op = "process_message" => reply.kind \notin {"exception", "none"}

\* a collaborator call of the event raised and the caller was answered with
\* the apology
C10_Witness ==
    /\ ev.op = "process_message"
    /\ ev.failed
    /\ reply = ERROR_REPLY


----------------------------------------------------------------------------
(* Claims about the authentication steps and the global commands *)

AuthStates == {"patient_auth", "staff_auth"}

\* the session would be reset by the next read: idle for longer than the
\* timeout, or holding a token that does not validate
Expired(row) ==
    is_session_expired(row) \/ (~token_falsy(row.auth_token) /\ is_token_expired(row.auth_token))

GlobalCommands == {CMD_LOGOUT, CMD_HELP, CMD_RESTART}

\* the next step handles a text (or button text) event of the identity
HandlesText(id) ==
    ev'.op = "process_message" /\ ev'.id = id /\ ev'.msg.type \in {"text", "button"}

AuthSuccess(rp) ==
    rp.kind \in {"patient_authentication_successful", "staff_authentication_successful"}

\* an unexpired, unauthenticated session waiting at an authentication step
AwaitingAuth(id) ==
    /\ Exists(id)
    /\ db[id].current_state \in AuthStates
    /\ ~db[id].is_authenticated
    /\ db[id].auth_token = NoToken
    /\ ~Expired(db[id])

C11_Step ==
    \A id \in Ids :
        (/\ AwaitingAuth(id)
         /\ HandlesText(id)
         /\ strip(lower(ev'.msg.text)) \notin GlobalCommands
         /\ ~AuthSuccess(reply'))
        => /\ db'[id].current_state = db[id].current_state
           /\ ~db'[id].is_authenticated
           /\ db'[id].auth_token = NoToken

\* C11: when the handling of an input at an authentication step does not end
\* with the authentication-success reply (rejection, backend failure, or a
\* failing step of the handler), the session is still at that step,
\* unauthenticated and without a token.
C11_FailedAuthLeavesSession == [][C11_Step]_vars


----------------------------------------------------------------------------
(* Claims about interactive events, help, restart, logout and expiry *)

\* the lookup of button and list ids to text commands
InteractiveCommands ==
    { [type |-> "button_reply", id |-> "patient_access", text |-> <<"p", "a", "t", "i", "e", "n", "t">>],
      [type |-> "button_reply", id |-> "staff_access", text |-> <<"s", "t", "a", "f", "f">>],
      [type |-> "button_reply", id |-> "help_info", text |-> <<"h", "e", "l", "p">>],
      [type |-> "list_reply", id |-> "patient_records", text |-> <<"r", "e", "c", "o", "r", "d", "s">>],
      [type |-> "list_reply", id |-> "patient_medicines", text |-> <<"m", "e", "d", "i", "c", "i", "n", "e", "s">>],
      [type |-> "list_reply", id |-> "patient_procedures", text |-> <<"p", "r", "o", "c", "e", "d", "u", "r", "e", "s">>],
      [type |-> "list_reply", id |-> "patient_appointments", text |-> <<"a", "p", "p", "o", "i", "n", "t", "m", "e", "n", "t", "s">>],
      [type |-> "list_reply", id |-> "help", text |-> <<"h", "e", "l", "p">>] }

\* the backend behaviours the handled event is compatible with: its own when
\* it consulted the backend, every one when it did not
BackendsOf(e) == IF e.be = NoBackend THEN BackendOutcomes ELSE {e.be}

C13_Step ==
    \A id \in Ids, c \in InteractiveCommands :
        (ev'.op = "process_message" /\ ev'.id = id /\ ev'.msg = InteractiveMessage(c.type, c.id))
        => \A be \in BackendsOf(ev') :
               /\ reply' = process_message(db[id], NoFailure, TextMessage(c.text), be).reply
               /\ db'[id] = process_message(db[id], NoFailure, TextMessage(c.text), be).row

\* C13: in every session state, processing the interactive event of a button
\* or list id gives the reply and the stored session that processing the
\* mapped text command gives in that state.
C13_InteractiveAsText == [][C13_Step]_vars


HelpReplies ==
    {R("general_help"), R("patient_commands_help"), R("staff_commands_help"), R("help_get_started")}

IsHelp(m) == m.type = "text" /\ lower(m.text) = CMD_HELP

\* the session as the first read of an event finds it: created when absent,
\* reset when expired
AsRead(id) == get_or_create_session(db[id], 0, NoFailure).row

C15_Step ==
    \A id \in Ids :
        (ev'.op = "process_message" /\ ev'.id = id /\ IsHelp(ev'.msg))
        => /\ reply' \in HelpReplies
           /\ db'[id].is_authenticated = AsRead(id).is_authenticated
           /\ db'[id].user_type = AsRead(id).user_type
           /\ db'[id].current_state = AsRead(id).current_state

\* C15: in every session state, a text event `help` is answered with a help
\* text (never the error reply) and leaves is_authenticated, user_type and
\* current_state as the read that starts the event finds them (that read
\* creates the session of an unseen identity and resets an expired one).
C15_HelpChangesNothing == [][C15_Step]_vars

\* an authenticated staff member in the staff menu has been given the staff
\* help
C15_Witness ==
    \E id \in Ids :
        /\ ev.op = "process_message" /\ ev.id = id /\ IsHelp(ev.msg)
        /\ reply = R("staff_commands_help")
        /\ db[id].is_authenticated
        /\ db[id].current_state = STAFF_MENU

IsRestart(m) == m.type = "text" /\ lower(m.text) = CMD_RESTART

\* C16: after a text event `restart`, in whatever state it is sent, the session
\* is unauthenticated, has no token and empty session_data, its state is
\* USER_TYPE_SELECTION, and the reply is the welcome/role prompt.
C16_RestartReenters ==
    \A id \in Ids :
        (ev.op = "process_message" /\ ev.id = id /\ IsRestart(ev.msg))
        => /\ ~db[id].is_authenticated
           /\ db[id].auth_token = NoToken
           /\ db[id].session_data = EmptyData
           /\ db[id].current_state = USER_TYPE_SELECTION
           /\ reply = WELCOME_REPLY


\* the backend calls that fetch or send patient data
DataCalls ==
    {"get_patient_records", "get_patient_medications", "get_patient_procedures",
     "get_patient_appointments", "search_patient", "send_patient_notification",
     "get_recent_patients"}

MadeDataCall(cs) == \E i \in DOMAIN cs : cs[i].kind = "backend" /\ cs[i].name \in DataCalls

\* what logout leaves: a stored session that is not authenticated
LoggedOut(id) == Exists(id) /\ ~db[id].is_authenticated

C17_Step ==
    \A id \in Ids :
        LoggedOut(id)
        => /\ (ev'.op = "process_message" /\ ev'.id = id) => ~MadeDataCall(calls')
           /\ (ev'.op # "authenticate_user" /\ ~AuthSuccess(reply')) => LoggedOut(id)'

\* C17: once an identity is logged out, no event (text, button or list) of it
\* makes a backend data call, and it stays logged out, until an
\* authentication has succeeded; the user_type and session_data that logout
\* leaves stored do not authorize anything.
C17_NoDataCallAfterLogout == [][C17_Step]_vars

\* a logged-out patient, whose user_type and user id are still stored, asked
\* for medicines and was refused without a backend call
C17_Witness ==
    \E id \in Ids :
        /\ ev.op = "process_message" /\ ev.id = id
        /\ ev.msg \in {TextMessage(T_MEDICINES), InteractiveMessage("list_reply", "patient_medicines")}
        /\ reply = SESSION_EXPIRED_REPLY
        /\ calls = <<>>
        /\ ~db[id].is_authenticated
        /\ db[id].user_type = "patient"
        /\ "user_id" \in DOMAIN db[id].session_data

C18_Step ==
    \A id \in Ids :
        (/\ Exists(id) /\ Expired(db[id])
         /\ HandlesText(id)
         /\ strip(lower(ev'.msg.text)) \notin GlobalCommands)
        => /\ reply' = WELCOME_REPLY
           /\ calls' = <<>>
           /\ ~db'[id].is_authenticated
           /\ db'[id].current_state = USER_TYPE_SELECTION

\* C18: when a session has expired (idle beyond the timeout, or its token no
\* longer validates), the next text event of the identity that is not a
\* global command is answered with the welcome/role prompt, makes no backend
\* call and leaves the session unauthenticated in state USER_TYPE_SELECTION.
C18_ExpiredSeesWelcome == [][C18_Step]_vars

\* every field but the timestamp has its creation default
Fresh(row) == [row EXCEPT !.last_activity = 0] = [created_session EXCEPT !.last_activity = 0]

C19_Step ==
    \A id \in Ids :
        (/\ ev'.id = id
         /\ \/ ev'.op = "clear_session"
            \/ ev'.op = "get_or_create_session" /\ Exists(id) /\ Expired(db[id]))
        => /\ Fresh(db'[id])
           /\ get_or_create_session(db'[id], 0, NoFailure).row = db'[id]

\* C19: after clear_session, and after the expiry reset of
\* get_or_create_session, every field of the session other than the
\* timestamps has its creation default (state NEW, empty session_data,
\* unauthenticated, no token, default user_type), and a second read returns
\* that session unchanged.
C19_ResetIsFresh == [][C19_Step]_vars


----------------------------------------------------------------------------
(* The authentication steps and the global commands under inputs that are   *)
(* padded with whitespace, capitalised, or at the limits of the length       *)
(* checks                                                                    *)

T_PAD_SHORT_ID == <<" ", "P", "1", "2", " ">>
T_MIN_ID == <<"P", "1", "2", "3", "4">>
T_PAD_ID == <<" ", "P", "1", "2", "3", "4", "5", " ">>
T_NO_COLON == <<"S", "T", "A", "F", "F", "1", "a", "b", "c", "d", "e", "f">>
T_SHORT_CRED == <<"A", ":", "b", "c", "d", "e", "f">>
T_PAD_SHORT_CRED == <<" ", "A", ":", "b", "c", "d", "e", "f", " ">>
T_EMPTY_STAFF_ID == <<":", "a", "b", "c", "d", "e", "f", "g", "h">>
T_SHORT_PASSWORD == <<"S", "T", "A", "F", "F", "1", ":", "a", "b", "c", "d", "e">>
T_MIN_CRED == <<"A", ":", "b", "c", "d", "e", "f", "g">>
T_PAD_LOGOUT == <<" ", "l", "o", "g", "o", "u", "t", " ">>
T_HELP_CAPITAL == <<"H", "e", "l", "p">>
T_PAD_HELP == <<"h", "e", "l", "p", " ">>
T_PAD_RESTART == <<" ", "R", "e", "s", "t", "a", "r", "t">>
T_NOTIFY_BARE == <<"n", "o", "t", "i", "f", "y">>
T_NOTIFY_ID == <<"n", "o", "t", "i", "f", "y", " ", "P", "1">>
T_PAD_NOTIFY_ID == <<" ", "N", "o", "t", "i", "f", "y", " ", " ", "P", "1", " ">>
T_NOTIFY_MESSAGE == <<"n", "o", "t", "i", "f", "y", " ", "P", "1", " ", "o", "k">>

InputTexts ==
    { T_HI, T_LOGOUT, T_LOGOUT_UPPER, T_HELP, T_RESTART, T_PATIENT_ID, T_SHORT_ID, T_STAFF_CRED,
      T_PAD_SHORT_ID, T_MIN_ID, T_PAD_ID, T_NO_COLON, T_SHORT_CRED, T_PAD_SHORT_CRED,
      T_EMPTY_STAFF_ID, T_SHORT_PASSWORD, T_MIN_CRED,
      T_PAD_LOGOUT, T_HELP_CAPITAL, T_PAD_HELP, T_PAD_RESTART,
      T_NOTIFY_BARE, T_NOTIFY_ID, T_PAD_NOTIFY_ID, T_NOTIFY_MESSAGE }

InputMessages ==
    { TextMessage(t) : t \in InputTexts }
    \cup { ButtonMessage(T_PAD_ID), ButtonMessage(T_PAD_LOGOUT),
           InteractiveMessage("button_reply", "patient_access"),
           InteractiveMessage("button_reply", "staff_access") }

NextInputs ==
    \/ \E id \in Ids, m \in InputMessages : Converse(id, m)
    \/ \E id \in Ids : AuthenticateUser(id, "patient", T_PATIENT_ID, NoToken)
    \/ \E id \in Ids : AuthenticateUser(id, "staff", T_STAFF_ID, NoToken)
    \/ \E id \in Ids, state \in {PATIENT_MENU, STAFF_MENU} : UpdateSessionState(id, state, EmptyData)
    \/ \E d \in FaultTickSteps : Tick(d)

SpecInputs == Init /\ [][NextInputs]_vars

\* the position of the first ':' of a text that has one
FirstColon(s) == CHOOSE k \in 1..Len(s) : s[k] = ":" /\ \A j \in 1..(k - 1) : s[j] # ":"

\* a malformed input of the authentication step `state`
Malformed(state, text) ==
    IF state = "patient_auth" THEN Len(strip(text)) < 5
    ELSE \/ \A k \in 1..Len(text) : text[k] # ":"
         \/ Len(strip(text)) < 8
         \/ FirstColon(strip(text)) = 1
         \/ Len(strip(text)) - FirstColon(strip(text)) < 6

CorrectiveReplies ==
    {R("invalid_patient_id"), R("invalid_staff_credentials_format"), R("invalid_credentials")}

AuthCallOf(state) ==
    BackendCall(IF state = "patient_auth" THEN "authenticate_patient" ELSE "authenticate_staff")

\* the identity's session has not expired and is at an authentication step,
\* and the next step handles a text of it that is not a global command
AuthInput(id) ==
    /\ Exists(id) /\ ~Expired(db[id])
    /\ db[id].current_state \in AuthStates
    /\ HandlesText(id)
    /\ lower(ev'.msg.text) \notin GlobalCommands

C12_Step ==
    \A id \in Ids :
        AuthInput(id)
        => IF Malformed(db[id].current_state, ev'.msg.text)
           THEN reply' \in CorrectiveReplies /\ calls' = <<>> /\ db'[id] = db[id]
           ELSE calls' = <<AuthCallOf(db[id].current_state)>>

\* C12: at an authentication step a malformed input (patient: trimmed length
\* below 5; staff: no ':', trimmed length below 8, empty id, or password
\* shorter than 6) gets a corrective reply, makes no backend call and leaves
\* the session as it was; every other input the step is given makes exactly
\* one backend authentication call.
C12_MalformedNeverReachesBackend == [][C12_Step]_vars

\* a staff input with a password of five characters was turned away at the
\* staff authentication step
C12_Witness ==
    \E id \in Ids :
        /\ ev.op = "process_message" /\ ev.id = id /\ ev.msg = TextMessage(T_SHORT_PASSWORD)
        /\ reply = R("invalid_credentials")
        /\ calls = <<>>
        /\ db[id].current_state = "staff_auth"

IsGlobalCommand(m) ==
    m.type = "text" /\ strip(lower(m.text)) \in GlobalCommands

\* the replies of the global command handler to a command
GlobalReplies(command) ==
    IF command = CMD_LOGOUT THEN {LOGOUT_REPLY}
    ELSE IF command = CMD_RESTART THEN {WELCOME_REPLY}
    ELSE HelpReplies

\* C14: a text input that equals logout, help or restart after trimming and
\* ignoring case is answered by the global command handler in every state,
\* and never makes a backend authentication call.
C14_GlobalCommandsFirst ==
    (ev.op = "process_message" /\ IsGlobalCommand(ev.msg))
    => /\ reply \in GlobalReplies(strip(lower(ev.msg.text)))
       /\ \A i \in DOMAIN calls : calls[i].name \notin {"authenticate_patient", "authenticate_staff"}


----------------------------------------------------------------------------
(* The token manager called on its own: tokens are issued for a subject, a  *)
(* role and an expiry, and validated as time passes                          *)

Subjects == {T_PATIENT_ID, T_STAFF_ID}
Roles == {"patient", "staff"}
ExpiryMinutes == {1, ShortTtl, TOKEN_EXPIRY_MINUTES}
TokenTickSteps == {1, 20}

\* TokenManager.generate_token(user_id, user_type, expiry_minutes)
GenerateToken(user_id, user_type, expiry_minutes) ==
    /\ issued' = [token |-> generate_token(user_id, user_type, expiry_minutes),
                  user_id |-> user_id, user_type |-> user_type,
                  expiry_minutes |-> expiry_minutes, at |-> now]
    /\ payload' = NoPayload
    /\ held' = generate_token(user_id, user_type, expiry_minutes)
    /\ reply' = R("returned")
    /\ calls' = <<>>
    /\ ev' = Event("generate_token", "", NoMessage, NoBackend, FALSE)
    /\ UNCHANGED <<db, now, limiterVars, workerVars, threadVars, tableVars>>

\* TokenManager.validate_token(token) on the token last issued
ValidateToken ==
    /\ issued # NoIssue
    /\ payload' = validate_token(issued.token)
    /\ reply' = R("returned")
    /\ calls' = <<>>
    /\ ev' = Event("validate_token", "", NoMessage, NoBackend, FALSE)
    /\ UNCHANGED <<db, now, issued, held, limiterVars, workerVars, threadVars, tableVars>>

NextTokens ==
    \/ \E user_id \in Subjects, user_type \in Roles, expiry_minutes \in ExpiryMinutes :
          GenerateToken(user_id, user_type, expiry_minutes)
    \/ ValidateToken
    \/ \E d \in TokenTickSteps : Tick(d)

SpecTokens == Init /\ [][NextTokens]_vars

\* C20: validate_token(generate_token(s, r, ttl)) returns a payload with
\* user_id = s and user_type = r at every time before ttl has elapsed since
\* the token was issued, and None at every time after.
C20_TokenRoundTrip ==
    ev.op = "validate_token"
    => /\ now < issued.at + issued.expiry_minutes
          => /\ payload # NoPayload
             /\ payload.user_id = issued.user_id
             /\ payload.user_type = issued.user_type
       /\ now > issued.at + issued.expiry_minutes => payload = NoPayload

\* a token issued for ShortTtl minutes was validated after some of them had
\* passed and gave its payload
C20_Witness ==
    /\ ev.op = "validate_token"
    /\ issued.expiry_minutes = ShortTtl
    /\ now > issued.at
    /\ payload # NoPayload
    /\ payload.user_id = issued.user_id


----------------------------------------------------------------------------
(* The token manager called on its own: a token is issued and then          *)
(* refreshed again and again as time passes                                  *)

\* an expiry longer than the extension refresh_token grants
LongTtl == TOKEN_EXPIRY_MINUTES + ShortTtl
RefreshExpiryMinutes == {1, ShortTtl, TOKEN_EXPIRY_MINUTES, LongTtl}
RefreshTickSteps == {10}

\* TokenManager.refresh_token(token) on the token last returned
RefreshToken ==
    /\ held # NoToken
    /\ held' = refresh_token(held, TOKEN_REFRESH_MINUTES)
    /\ reply' = R("returned")
    /\ calls' = <<>>
    /\ ev' = Event("refresh_token", "", NoMessage, NoBackend, FALSE)
    /\ UNCHANGED <<db, now, issued, payload, limiterVars, workerVars, threadVars, tableVars>>

NextRefresh ==
    \/ \E user_id \in Subjects, user_type \in Roles, expiry_minutes \in RefreshExpiryMinutes :
          GenerateToken(user_id, user_type, expiry_minutes)
    \/ RefreshToken
    \/ \E d \in RefreshTickSteps : Tick(d)

SpecRefresh == Init /\ [][NextRefresh]_vars

\* a refresh_token call is made on a token that is still valid
RefreshesValid == ev'.op = "refresh_token" /\ ~is_token_expired(held)

C21_Step ==
    RefreshesValid
    => /\ held' # NoToken
       /\ held'.exp > now
       /\ held'.exp >= held.exp

\* C21: for every still-valid token, whatever ttl it was issued with, and
\* every refresh time, refresh_token returns a token whose expiry is later
\* than the refresh time and not earlier than the expiry of the token it
\* replaces, so that repeated refreshes never shorten the expiry.
C21_RefreshNeverShortens == [][C21_Step]_vars

\* two tokens for one subject, the second produced right after the first
SameSubject(a, b) == a.kind = "jwt" /\ b.kind = "jwt" /\ a.user_id = b.user_id

C30_Step ==
    ev'.op \in {"generate_token", "refresh_token"} /\ SameSubject(held, held')
    => held'.jti # held.jti

\* C30: the unique id changes on every issue and refresh: two tokens that
\* generate_token or refresh_token produce for the same subject, the second
\* one right after the first included, carry different ids.
C30_UniqueIdChanges == [][C30_Step]_vars


----------------------------------------------------------------------------
(* One rate limiter called directly: the 'whatsapp_send' limiter (5 tokens  *)
(* per second, burst of 10) under consume and wait_for_tokens calls of       *)
(* several sizes, one of them larger than the bucket                         *)

BucketKeys == {"whatsapp_send"}
BucketTokenCounts == {1, 3, 11}
BucketSteps == {1}

NextBucket ==
    \/ \E key \in BucketKeys, tokens \in BucketTokenCounts : Consume(key, tokens)
    \/ \E key \in BucketKeys, tokens \in BucketTokenCounts, late \in LateBy : WaitForTokens(key, tokens, late)
    \/ \E d \in BucketSteps : Advance(d)

SpecBucket == Init /\ [][NextBucket]_vars

\* consume(n) is repeated on the bucket that denied it, n being no more than
\* the bucket holds when full, after at least deficit / refill_rate seconds
\* in which nothing else was taken from the bucket
RetriesAfterWait ==
    /\ denied # NoDenial
    /\ ~denied.retried
    /\ ev'.op = "consume"
    /\ ev'.id = denied.key
    /\ rlret'.asked = denied.tokens
    /\ denied.tokens * TicksPerSecond <= buckets[denied.key].bucket_size
    /\ (rlnow - denied.at) * buckets[denied.key].refill_rate >= denied.tokens * TicksPerSecond - denied.have

C22_Step == RetriesAfterWait => rlret'.granted

\* C22: after a consume(n) with n <= bucket_size was denied, if
\* deficit / refill_rate seconds pass with no other consumption on that
\* bucket, a repeated consume(n) succeeds.
C22_DeniedThenGranted == [][C22_Step]_vars

\* a denied consume(n) was repeated after time had passed and was granted
C22_Witness ==
    /\ denied.retried
    /\ ev.op = "consume"
    /\ ev.id = denied.key
    /\ rlret.granted
    /\ rlret.asked = denied.tokens
    /\ denied.have < denied.tokens * TicksPerSecond
    /\ rlnow > denied.at

C28_Step ==
    \A key \in BucketKeys :
        (ev'.op = "consume" /\ ev'.id = key)
        => LET Holds(have, n) ==
                   /\ rlret'.granted <=> n <= have
                   /\ buckets'[key].tokens = IF n <= have THEN have - n ELSE have
                   /\ buckets'[key].last_refill = rlnow
                   /\ rlnow' = rlnow
           IN Holds(Min(buckets[key].bucket_size,
                        buckets[key].tokens + (rlnow - buckets[key].last_refill) * buckets[key].refill_rate),
                    rlret'.asked * TicksPerSecond)

\* C28: consume(n) first refills, then returns true and deducts exactly n
\* tokens if and only if n <= tokens; when it returns false the token count
\* is the refilled count with nothing deducted.
C28_ConsumeExact == [][C28_Step]_vars

\* a consume call took the last tokens of the bucket after a refill, and one
\* was denied with a bucket that was not empty
C28_Witness ==
    /\ ev.op = "consume"
    /\ rlret.granted
    /\ rlret.asked = 3
    /\ buckets[ev.id].tokens = 0
    /\ rlnow > 0

\* 0.2 seconds in ticks: the least whole number of ticks that is no less
FifthOfSecond(w) == 5 * w >= TicksPerSecond /\ 5 * (w - 1) < TicksPerSecond

C29_Step ==
    \A key \in BucketKeys :
        (ev'.op = "wait_for_tokens" /\ ev'.id = key)
        => LET Holds(have, n, rate) ==
                   /\ n <= have
                      => /\ rlret'.wait_time = 0
                         /\ buckets'[key].tokens = have - n
                         /\ rlnow' = rlnow
                   /\ n > have
                      => /\ rlret'.wait_time * rate >= n - have
                         /\ (rlret'.wait_time - 1) * rate < n - have
                         /\ rlnow' >= rlnow + rlret'.wait_time
                         /\ buckets'[key].tokens = 0
                         /\ buckets'[key].last_refill = rlnow'
                   /\ (buckets[key].bucket_size = 10 * TicksPerSecond /\ rate = 5
                       /\ have = 0 /\ rlret'.asked = 1)
                      => FifthOfSecond(rlret'.wait_time)
           IN Holds(Min(buckets[key].bucket_size,
                        buckets[key].tokens + (rlnow - buckets[key].last_refill) * buckets[key].refill_rate),
                    rlret'.asked * TicksPerSecond, buckets[key].refill_rate)

\* C29: wait_for_tokens(n) returns 0 and deducts n when n <= tokens after
\* the refill; otherwise it returns wait = (n - tokens) / refill_rate,
\* suspends the caller for that long, and leaves tokens = 0 with
\* last_refill = now.  With bucket_size 10 and refill_rate 5 per second, a
\* wait_for_tokens(1) that follows 10 immediate, granted consume(1) calls
\* reports a wait of 0.2 seconds.
C29_WaitForTokens == [][C29_Step]_vars

\* the full bucket was emptied at time 0 and a wait_for_tokens(1) called at
\* once has returned 0.2 seconds later, reporting that wait
C29_Witness ==
    /\ ev.op = "wait_for_tokens"
    /\ rlret.asked = 1
    /\ FifthOfSecond(rlret.wait_time)
    /\ rlnow = rlret.wait_time
    /\ buckets[ev.id].tokens = 0
    /\ buckets[ev.id].last_refill = rlnow


----------------------------------------------------------------------------
(* The states a session is given and the states the text dispatcher routes *)

\* the states of the conversation: those _process_text_message compares
\* current_state with, and the two menu states its last branch serves
DeclaredStates == {STATE_NEW, USER_TYPE_SELECTION, "patient_auth", "staff_auth", PATIENT_MENU, STAFF_MENU}

\* C23: the current_state of a session is in every reachable state a member
\* of the fixed state set (NEW, USER_TYPE_SELECTION, PATIENT_AUTH, STAFF_AUTH,
\* PATIENT_MENU, STAFF_MENU): every state value an engine operation writes is
\* a declared state that the text dispatcher routes to the handler of that
\* state.
C23_StateInFixedSet ==
    \A id \in Ids : Exists(id) => db[id].current_state \in DeclaredStates

MenuStates == {PATIENT_MENU, STAFF_MENU}

\* a text other than logout and restart is handled for a session that the
\* event's first read finds in a menu state
MenuText(id) ==
    /\ ev'.op = "process_message"
    /\ ev'.id = id
    /\ ev'.msg.type = "text"
    /\ strip(lower(ev'.msg.text)) \notin {CMD_LOGOUT, CMD_RESTART}
    /\ Exists(id)
    /\ db[id].current_state \in MenuStates
    /\ ~Expired(db[id])

C24_Step ==
    \A id \in Ids :
        MenuText(id)
        => /\ db'[id].current_state = db[id].current_state
           /\ db'[id].is_authenticated = db[id].is_authenticated
           /\ db'[id].user_type = db[id].user_type
           /\ db'[id].auth_token = db[id].auth_token

\* C24: in PATIENT_MENU and STAFF_MENU every text input other than logout and
\* restart (recognized commands, unrecognized input, and commands whose
\* backend call fails) leaves current_state, is_authenticated, user_type and
\* auth_token of the session unchanged.
C24_MenuSelfLoop == [][C24_Step]_vars

\* an authenticated patient in PATIENT_MENU sent a command whose backend call
\* failed and is still authenticated in PATIENT_MENU with the same token
C24_Witness ==
    /\ ev.op = "process_message"
    /\ ev.msg.type = "text"
    /\ ev.msg.text = T_MEDICINES
    /\ ev.be.first = "error"
    /\ calls # <<>>
    /\ db[ev.id].current_state = PATIENT_MENU
    /\ db[ev.id].is_authenticated
    /\ db[ev.id].auth_token.kind = "jwt"


----------------------------------------------------------------------------
(* Reads of the session store *)

\* get_or_create_session has read an existing, authenticated session that
\* holds a valid token and is not idle for too long
ReadsAuthenticated(id) ==
    /\ ev'.op = "get_or_create_session"
    /\ ev'.id = id
    /\ Exists(id)
    /\ db[id].is_authenticated
    /\ ~token_falsy(db[id].auth_token)
    /\ ~Expired(db[id])

C25_Step ==
    \A id \in Ids :
        ReadsAuthenticated(id)
        => db'[id].auth_token = refresh_token(db[id].auth_token, TOKEN_REFRESH_MINUTES)

\* C25: every read of an existing authenticated session by
\* get_or_create_session that does not reset it refreshes the token and
\* writes the refreshed token back, so that a user whose consecutive events
\* are always less than the token TTL apart is never de-authenticated by
\* token expiry.
C25_ReadRefreshesToken == [][C25_Step]_vars

\* the session is as clear_session leaves it, saved at this moment
IsReset(row) ==
    /\ row.current_state = STATE_NEW
    /\ row.session_data = EmptyData
    /\ ~row.is_authenticated
    /\ row.auth_token = NoToken
    /\ row.last_activity = now

C26_Step ==
    \A id \in Ids :
        (ev'.op = "get_or_create_session" /\ ev'.id = id)
        => IF ~Exists(id)
           THEN /\ db'[id].current_state = STATE_NEW
                /\ ~db'[id].is_authenticated
                /\ db'[id].session_data = EmptyData
           ELSE IF \/ now - db[id].last_activity > DEFAULT_TIMEOUT_MINUTES
                   \/ /\ ~token_falsy(db[id].auth_token)
                      /\ is_token_expired(db[id].auth_token)
           THEN /\ IsReset(db'[id])
                /\ db'[id].user_type = db[id].user_type
           ELSE db'[id] = db[id]

\* C26: get_or_create_session inserts a NEW, unauthenticated session with
\* empty data for an unseen identity; an existing session it resets in place
\* before returning it if and only if its last activity is older than the
\* inactivity timeout or it holds a token that is_token_expired reports as
\* expired, and otherwise returns it with state, data, authentication and
\* user_type unchanged.
C26_GetOrCreate == [][C26_Step]_vars

\* a read has reset a session, active a moment before, whose token had expired
C26_Witness ==
    \E id \in Ids :
        /\ ev.op = "get_or_create_session"
        /\ ev.id = id
        /\ IsReset(db[id])
        /\ db[id].user_type = "staff"
        /\ now = ShortTtl

C27_Step ==
    \A id \in Ids :
        (ev'.op = "get_or_create_session" /\ ev'.id = id /\ Exists(id) /\ token_falsy(db[id].auth_token))
        => /\ now - db[id].last_activity < EXPIRY_HOURS * 60 => db'[id] = db[id]
           /\ now - db[id].last_activity > EXPIRY_HOURS * 60 => IsReset(db'[id])

\* C27: the inactivity timeout that get_or_create_session applies is the
\* configured policy constant, by default 24 hours (SessionExpiry.EXPIRY_HOURS):
\* a session whose last activity is less than 24 hours old is not reset for
\* inactivity, and one whose last activity is more than 24 hours old is.
C27_TimeoutIsPolicyConstant == [][C27_Step]_vars


----------------------------------------------------------------------------
(* What the reply says and what is stored *)

\* C40: whenever the engine returns the logout confirmation reply, the stored
\* session is unauthenticated with no token, also when the session store
\* fails during logout_user: the user is never told they are logged out
\* while the stored session is still authenticated.
C40_LogoutReplyMeansLoggedOut ==
    \A id \in Ids :
        (ev.op = "process_message" /\ ev.id = id /\ reply = LOGOUT_REPLY /\ Exists(id))
        => /\ ~db[id].is_authenticated
           /\ db[id].auth_token = NoToken


----------------------------------------------------------------------------
(* What an event leaves of the session it was handled for *)

C37_Step ==
    \A id \in Ids :
        (ev'.op = "process_message" /\ ev'.id = id) => db'[id].last_activity = now

\* C37: every processed event advances the session's last_activity, read-only
\* menu commands included, so that the session of an identity whose
\* consecutive events are always less than the inactivity timeout apart is
\* never reset for inactivity.
C37_EveryEventAdvancesActivity == [][C37_Step]_vars

\* the patient-data fetches of the backend client
PatientFetches ==
    { BackendCall(name) : name \in {"get_patient_records", "get_patient_medications",
                                    "get_patient_procedures", "get_patient_appointments"} }

C36_Step ==
    \A id \in Ids :
        (ev'.op = "process_message" /\ ev'.id = id
         /\ \E i \in DOMAIN calls' : calls'[i] \in PatientFetches)
        => /\ Exists(id)
           /\ AsRead(id).is_authenticated
           /\ AsRead(id).user_type = "patient"

\* C36: a backend patient-data fetch (get_patient_records,
\* get_patient_medications, get_patient_procedures, get_patient_appointments)
\* is invoked only for a session with is_authenticated = true and
\* user_type = patient, whatever kind of event (text, button, list reply)
\* triggers it and whatever state the session is in.
C36_PatientFetchOnlyForPatient == [][C36_Step]_vars


----------------------------------------------------------------------------
(* The conversation engine alone: every change of a session is made by an   *)
(* event the engine handles                                                  *)

NextEngine ==
    \/ \E id \in Ids, m \in Messages : Converse(id, m)
    \/ \E d \in TickSteps : Tick(d)

SpecEngine == Init /\ [][NextEngine]_vars

\* the role a menu state belongs to
MenuRole(state) == IF state = PATIENT_MENU THEN "patient" ELSE "staff"

\* C35: in every state reachable by a single worker per identity,
\* current_state in {PATIENT_MENU, STAFF_MENU} implies is_authenticated = true
\* and user_type equal to the role of that menu: a session is never in a menu
\* state while unauthenticated.
C35_MenuImpliesAuthenticated ==
    \A id \in Ids :
        (Exists(id) /\ db[id].current_state \in MenuStates)
        => /\ db[id].is_authenticated
           /\ db[id].user_type = MenuRole(db[id].current_state)


\* the event is handled by _handle_list_interaction, or is a text that the
\* dispatcher passes on to _handle_patient_commands or _handle_staff_commands
ReachesCommandHandler(id) ==
    /\ ev'.op = "process_message"
    /\ ev'.id = id
    /\ \/ ev'.msg.type = "interactive" /\ ev'.msg.interactive.type = "list_reply"
       \/ /\ ev'.msg.type \in {"text", "button"}
          /\ lower(ev'.msg.text) \notin GlobalCommands
          /\ AsRead(id).current_state \notin {STATE_NEW, USER_TYPE_SELECTION} \cup AuthStates
          /\ AsRead(id).user_type \in {"patient", "staff"}

\* the session the event's first read returns has no user id or no token
LacksCredentials(id) ==
    \/ DictGet(AsRead(id).session_data, "user_id", <<>>) = <<>>
    \/ token_falsy(AsRead(id).auth_token)

C32_Step ==
    \A id \in Ids :
        (ReachesCommandHandler(id) /\ LacksCredentials(id))
        => /\ reply' = SESSION_EXPIRED_REPLY
           /\ calls' = <<>>
           /\ db'[id] = AsRead(id)

\* C32: when a menu command or list selection is handled for a session whose
\* session_data.user_id or auth_token is empty, the reply is the "session has
\* expired, please logout" message, no backend call is made, and the session
\* is not modified.
C32_EmptyCredentialsRefused == [][C32_Step]_vars

\* a session in PATIENT_MENU without user id and token sent `records` and was
\* told that its session has expired
C32_Witness ==
    \E id \in Ids :
        /\ ev.op = "process_message"
        /\ ev.id = id
        /\ ev.msg = TextMessage(T_RECORDS)
        /\ reply = SESSION_EXPIRED_REPLY
        /\ calls = <<>>
        /\ db[id].current_state = PATIENT_MENU
        /\ db[id].auth_token = NoToken


----------------------------------------------------------------------------
(* Calls limited under a resource class that has no bucket *)

\* mark_message_as_read is wrapped with rate_limited('whatsapp_status'), a
\* key _rate_limiters does not have
C34_Step ==
    ev'.op = "mark_message_as_read"
    => /\ buckets' = buckets
       /\ rlnow' = rlnow
       /\ rlret'.wait_time = 0
       /\ calls' \in {<<>>, <<GatewayCall("mark_message_as_read")>>}

\* C34: a call wrapped with rate_limited under a resource class that has no
\* configured bucket is executed immediately (fails open): it is never
\* blocked, never suspended and consumes from no bucket, and the state of all
\* configured buckets is unchanged.
C34_UnknownClassFailsOpen == [][C34_Step]_vars

\* the read receipt went out at once at a time when the send bucket was in use
C34_Witness ==
    /\ ev.op = "mark_message_as_read"
    /\ calls = <<GatewayCall("mark_message_as_read")>>
    /\ rlret.wait_time = 0
    /\ rlnow > 0
    /\ buckets["whatsapp_send"].tokens < buckets["whatsapp_send"].bucket_size
    /\ buckets["whatsapp_read"].tokens = buckets["whatsapp_read"].bucket_size


----------------------------------------------------------------------------
(* The notify command of the staff menu *)

\* the text is a notify command: `notify` followed by something
IsNotify(text) == startswith(lower(strip(text)), Append(T_NOTIFY_BARE, " "))

NotifyCall == BackendCall("send_patient_notification")

\* a notify command is handled for a staff session in STAFF_MENU that holds a
\* user id and a token
NotifyInMenu(id) ==
    /\ ev'.op = "process_message"
    /\ ev'.id = id
    /\ ev'.msg.type = "text"
    /\ IsNotify(ev'.msg.text)
    /\ Exists(id)
    /\ ~Expired(db[id])
    /\ db[id].current_state = STAFF_MENU
    /\ db[id].user_type = "staff"
    /\ ~LacksCredentials(id)

C33_Step ==
    \A id \in Ids :
        NotifyInMenu(id)
        => LET Holds(words, called) ==
                   /\ words < 3 => (reply' = R("invalid_notify_format") /\ ~called)
                   /\ called => words >= 3
           IN Holds(word_count(ev'.msg.text), \E i \in DOMAIN calls' : calls'[i] = NotifyCall)

\* C33: in STAFF_MENU a `notify` command that lacks the patient id or lacks
\* the message text yields the usage-error reply and makes no backend notify
\* call; the backend notify call is made only when both an id and a non-empty
\* message are present.
C33_NotifyValidated == [][C33_Step]_vars


----------------------------------------------------------------------------
(* The session manager called on its own, with session data of the caller   *)
(* and with every kind of token a caller can pass                            *)

\* a key of session_data other than user_id, and the dicts a caller passes
LANGUAGE_DATA == [language |-> <<"e", "n">>]
StoreData == {EmptyData, LANGUAGE_DATA}

\* none, the empty string, the backend's token, a token of the caller's own
StoreTokens(user_id, user_type) == CallerTokens(user_id, user_type) \cup {OpaqueToken("")}

NextStore ==
    \/ \E id \in Ids, user_type \in Roles, user_id \in Subjects :
          \E token \in StoreTokens(user_id, user_type) : AuthenticateUser(id, user_type, user_id, token)
    \/ \E id \in Ids, state \in {"", "patient_auth"}, data \in StoreData : UpdateSessionState(id, state, data)
    \/ \E id \in Ids : GetOrCreateSession(id)
    \/ \E id \in Ids : ClearSession(id)
    \/ \E id \in Ids : LogoutUser(id)
    \/ \E d \in TickSteps : Tick(d)

SpecStore == Init /\ [][NextStore]_vars

\* what the claim says of the row stored by authenticate_user, `old` being
\* the session as authenticate_user reads it
Authenticated(old, new, user_type, user_id, token) ==
    /\ new.is_authenticated
    /\ new.user_type = user_type
    /\ ~token_falsy(new.auth_token)
    /\ token_falsy(token)
       => /\ new.auth_token.kind = "jwt"
          /\ new.auth_token.user_id = user_id
          /\ new.auth_token.user_type = user_type
          /\ new.auth_token.exp = now + TOKEN_EXPIRY_MINUTES
    /\ ~token_falsy(token) => new.auth_token = token
    /\ DOMAIN new.session_data = DOMAIN old.session_data \cup {"user_id"}
    /\ new.session_data["user_id"] = user_id
    /\ \A k \in DOMAIN old.session_data \ {"user_id"} : new.session_data[k] = old.session_data[k]

C31_Step ==
    \A id \in Ids, user_type \in Roles, user_id \in Subjects :
        \A token \in StoreTokens(user_id, user_type) :
            AuthenticateUser(id, user_type, user_id, token)
            => Authenticated(AsRead(id), db'[id], user_type, user_id, token)

\* C31: authenticate_user(identity, user_type, user_id, token): when no token
\* (none or empty) is supplied it issues one with user_id as subject,
\* user_type as role and the policy TTL; in all cases the stored session
\* afterwards has is_authenticated = true, the given user_type, a non-empty
\* token, and session_data.user_id = user_id, with the other session_data
\* keys unchanged.
C31_AuthenticateUser == [][C31_Step]_vars

\* a session that held other data was authenticated without a token being
\* passed and holds an issued token, the user id and the data it had
C31_Witness ==
    \E id \in Ids :
        /\ ev.op = "authenticate_user"
        /\ ev.id = id
        /\ db[id].is_authenticated
        /\ db[id].auth_token.kind = "jwt"
        /\ db[id].auth_token.iat = now
        /\ db[id].auth_token.exp = now + TOKEN_EXPIRY_MINUTES
        /\ now > 0
        /\ DOMAIN db[id].session_data = {"user_id", "language"}


----------------------------------------------------------------------------
(* The tokens one caller is granted over time *)

GrantTokenCounts == {10, 21}
GrantSteps == {1}

NextGrants ==
    \/ \E tokens \in GrantTokenCounts : Consume(LoggedKey, tokens)
    \/ \E tokens \in GrantTokenCounts, late \in LateBy : WaitForTokens(LoggedKey, tokens, late)
    \/ \E d \in GrantSteps : Advance(d)

SpecGrants == Init /\ [][NextGrants]_vars

RECURSIVE GrantedBetween(_, _)
\* the tokens granted from time a to time b, both included
GrantedBetween(a, b) == IF a > b THEN 0 ELSE grantlog[b] + GrantedBetween(a, b - 1)

\* C39: for a single caller and any sequence of consume / wait_for_tokens
\* calls (requests larger than bucket_size included), the total number of
\* tokens granted within any time interval of length T is at most
\* bucket_size + refill_rate * T, and every wait_for_tokens call returns
\* after a finite wait.
C39_GrantedWithinBound ==
    /\ \A a \in 0..MaxLimiterTime, b \in 0..MaxLimiterTime :
          a <= b => GrantedBetween(a, b) <= buckets[LoggedKey].bucket_size
                                            + buckets[LoggedKey].refill_rate * (b - a)
    /\ ev.op = "wait_for_tokens" => rlret.wait_time \in 0..(rlret.asked * TicksPerSecond)


----------------------------------------------------------------------------
(* Concurrent get_or_create_session calls on the user_sessions table *)

\* the identities the concurrent workers serve
TableIds == {"u1", "u2"}

\* the states a worker leaves in a row it has loaded
TableStates == {"new", "main_menu"}

\* the row UserSession.objects.create inserts: the next primary key, the
\* identity, and the default state given by get_or_create_session
NewRow(rows, whatsapp_id) ==
    [pk |-> Cardinality(rows) + 1, whatsapp_id |-> whatsapp_id, current_state |-> "new"]

\* INSERT under the unique constraint of whatsapp_id: a second row of an
\* identity is refused with IntegrityError
unique_insert_mut_no_constraint(rows, row) ==
    [rows |-> rows \cup {row}, ok |-> TRUE]

unique_insert(rows, row) ==
    IF \E r \in rows : r.whatsapp_id = row.whatsapp_id
    THEN [rows |-> rows, ok |-> FALSE]
    ELSE [rows |-> rows \cup {row}, ok |-> TRUE]

\* Model.save() of a loaded row: UPDATE ... WHERE pk = row.pk
save_row(rows, pk, state) ==
    { IF r.pk = pk THEN [r EXCEPT !.current_state = state] ELSE r : r \in rows }

GStep(w, call) ==
    /\ gpc' = [gpc EXCEPT ![w] = call]
    /\ UNCHANGED <<engineVars, limiterVars, workerVars, threadVars, tokenVars>>

\* a worker receives an event of an identity and enters get_or_create_session
GBegin(w, whatsapp_id) ==
    /\ gpc[w].pc = "idle"
    /\ table' = table
    /\ GStep(w, [pc |-> "get", whatsapp_id |-> whatsapp_id, pk |-> 0])

\* get_or_create: the SELECT by whatsapp_id, of the first try and of the
\* one that follows an IntegrityError
GGet(w) ==
    /\ gpc[w].pc \in {"get", "reget"}
    /\ table' = table
    /\ IF \E r \in table : r.whatsapp_id = gpc[w].whatsapp_id
       THEN LET r == CHOOSE r \in table : r.whatsapp_id = gpc[w].whatsapp_id
            IN GStep(w, [gpc[w] EXCEPT !.pc = "loaded", !.pk = r.pk])
       ELSE GStep(w, [gpc[w] EXCEPT !.pc = "create"])

\* get_or_create: the INSERT after a SELECT that found nothing
GCreate(w) ==
    /\ gpc[w].pc = "create"
    /\ LET i == unique_insert(table, NewRow(table, gpc[w].whatsapp_id))
       IN /\ table' = i.rows
          /\ IF i.ok THEN GStep(w, IdleCall)
                     ELSE GStep(w, [gpc[w] EXCEPT !.pc = "reget"])

\* the row was found: it is reset in place (clear_session) or kept, and the
\* handler that asked for it saves its next state
GSave(w, state) ==
    /\ gpc[w].pc = "loaded"
    /\ table' = save_row(table, gpc[w].pk, state)
    /\ GStep(w, IdleCall)

NextTable ==
    \/ \E w \in Workers, whatsapp_id \in TableIds : GBegin(w, whatsapp_id)
    \/ \E w \in Workers : GGet(w)
    \/ \E w \in Workers : GCreate(w)
    \/ \E w \in Workers, state \in TableStates : GSave(w, state)

SpecTable == Init /\ [][NextTable]_vars

\* the identity whose event a worker is handling in this step
Serves(w) == IF gpc[w].pc = "idle" THEN gpc'[w].whatsapp_id ELSE gpc[w].whatsapp_id

C38_Step ==
    /\ \A r1 \in table', r2 \in table' : r1.whatsapp_id = r2.whatsapp_id => r1 = r2
    /\ \A r \in table : \E r2 \in table' : r2.pk = r.pk /\ r2.whatsapp_id = r.whatsapp_id
    /\ \A w \in Workers : gpc'[w] # gpc[w] =>
          \A r \in table : r.whatsapp_id # Serves(w) => r \in table'

\* C38: there is at most one Session per identity in every reachable state,
\* also when several workers call get_or_create_session concurrently for
\* the same unseen identity; a session once created is never deleted, only
\* reset in place, and an event for one identity never modifies the session
\* of another identity.
C38_OneSessionPerIdentity == [][C38_Step]_vars

\* two workers raced to create the session of one unseen identity: one
\* inserted it, the other was refused and is about to read the winner's row,
\* while the session of the other identity exists
C38_Witness ==
    /\ \E w \in Workers : /\ gpc[w].pc = "reget"
                          /\ \E r \in table : r.whatsapp_id = gpc[w].whatsapp_id
    /\ \A id \in TableIds : \E r \in table : r.whatsapp_id = id

====
